---------------------------- MODULE Spec2Model ----------------------------
(***************************************************************************)
(* Model of the StimIQ optimisation core:                                  *)
(*   - Bayes.model              (src/src/backend/Bayes.py)                 *)
(*   - calculate_loss           (src/src/backend/loss/loss.py)             *)
(*   - the baseline-RMS cache   (src/src/backend/loss/loss.py)             *)
(*   - Simulator.run            (src/src/sim/simulator.py)                 *)
(*   - StimParams               (src/src/sim/api/types.py)                 *)
(*   - sample_patient_params    (src/src/sim/cohort/sampling.py)           *)
(*   - square_pulse_train       (src/src/sim/stimulation/waveforms.py)     *)
(*   - the history table reader (Bayes.py, run_bayes_iterations.py)        *)
(*                                                                         *)
(* Numbers.  Parameter values are integers in a per-base unit of one third *)
(* of that base's minimum span (amp 0.2/3, freq_hz 10/3, pulse_width_s     *)
(* 0.5/3, phase_rad 0.5/3).  Every distance the code takes is normalised   *)
(* per dimension, so the unit of a dimension cancels.  History values are  *)
(* multiples of 30 units, which makes the 10 % bound expansion and the     *)
(* thirds used for candidates exact in integers.  Severities and means are *)
(* exact rationals [num, den].                                             *)
(***************************************************************************)
EXTENDS Integers, Sequences, FiniteSets, TLC

VARIABLES
    history,        \* the persisted (parameters, severity) table, oldest first
    pc,             \* position inside one Bayes.model call
    batch_size,     \* argument of the call
    min_distance_frac, \* argument of the call, a rational [num, den]
    df,             \* the frame the call works on (after tail(n))
    X,              \* feature matrix (sequence of parameter rows)
    y,              \* target vector (sequence of rationals)
    fitted,         \* TRUE once gp.fit returned
    param_low,      \* per-column lower search bound
    param_high,     \* per-column upper search bound
    cand,           \* candidate pool (sequence of parameter rows)
    score,          \* acquisition score of each candidate
    greedy_idx,     \* indices accepted by the diversity pass
    selected_idx,   \* indices finally selected
    result,         \* what the call returned or raised
    loss_pc,        \* "idle" or "scored"
    loss_in,        \* the values the scoring arithmetic was applied to
    loss_raw,       \* the value before the final clip
    loss_out,       \* the severity returned
    sim_done,       \* the seeded runs made so far: arguments and output
    caller_rng,     \* state of a generator a caller passes to its runs
    sim_runs,       \* number of runs made
    rollouts,       \* the rollouts generate_rollouts calls returned
    gen_err,        \* whether a generate_rollouts call raised
    cfg_seed,       \* the seed of the loaded configuration
    cache_init,     \* the cache entries present before any call
    cache_file,     \* the baseline cache file
    wpc,            \* where each worker is in calculate_loss
    wcall,          \* the arguments of each worker's call
    wcached,        \* the cache dict a worker is about to save
    wbase,          \* rms_baseline of each worker's call, None if unset
    wran,           \* whether the call ran the baseline simulation
    wafter,         \* whether the call began after its key was stored
    wresult,        \* the severity each worker's last call returned
    stored,         \* the keys whose save has completed
    calls_begun,    \* number of calls begun
    stim_call,      \* the last StimParams / from_matrix / calculate_loss call
    stim_ret,       \* what that call returned or raised
    obs,            \* observed parameter rows the search bounds are made for
    cfg_bounds,     \* per-base bounds of the configuration, if any
    bounds,         \* the bounds map Bayes.model returns
    sample_in,      \* arguments and draws of one sample_patient_params call
    sample_locals,  \* the brain / periphery / sensor dicts it built
    sample_ret,     \* what the call returned or raised
    patient_ret,    \* what a PatientParams(...) construction gave
    wave_in,        \* arguments of the last square_pulse_train call
    wave_out,       \* the signal it returned
    table_in,       \* a persisted history table and who reads it
    table_df,       \* the frame the reader works on after column naming
    ei_in,          \* arguments of the last _expected_improvement call
    ei_out,         \* the array it returned
    stab_in,        \* arguments of one long Simulator.run
    stab_out,       \* the positions it returned
    run_pc,         \* "idle", "running", "done" or "raised"
    run_args,       \* arguments of the run
    run_init,       \* the persisted table the run started from
    run_table,      \* the persisted table
    run_step,       \* passes of the loop body made
    run_losses,     \* the losses collected so far
    run_evals,      \* the (parameters, severity) pairs calculate_loss returned
    run_fitted,     \* whether a Bayes.model call of the run fitted a surrogate
    imu_in,         \* arguments of one IMUModel.observe call
    imu_out,        \* the MeasurementOutput it returned
    grid_cfg,       \* dt and duration_s of one RolloutConfig
    grid_t,         \* its time grid
    grid_steps      \* the time step each stage of the rollout uses

bayesVars == <<history, pc, batch_size, min_distance_frac, df, X, y, fitted,
               param_low, param_high, cand, score, greedy_idx, selected_idx,
               result>>

lossVars == <<loss_pc, loss_in, loss_raw, loss_out>>

simVars == <<sim_done, caller_rng, sim_runs, rollouts, gen_err>>

cacheVars == <<cfg_seed, cache_init, cache_file, wpc, wcall, wcached, wbase,
               wran, wafter, wresult, stored, calls_begun>>

typesVars == <<stim_call, stim_ret>>

boundsVars == <<obs, cfg_bounds, bounds>>

cohortVars == <<sample_in, sample_locals, sample_ret, patient_ret>>

waveVars == <<wave_in, wave_out>>

tableVars == <<table_in, table_df>>

eiVars == <<ei_in, ei_out>>

stabVars == <<stab_in, stab_out>>

runnerVars == <<run_pc, run_args, run_init, run_table, run_step, run_losses, run_evals, run_fitted>>

imuVars == <<imu_in, imu_out>>

gridVars == <<grid_cfg, grid_t, grid_steps>>

\* the variables of the other components
otherThanBayes ==
    <<lossVars, simVars, cacheVars, typesVars, boundsVars, cohortVars,
      waveVars, tableVars, eiVars, stabVars, runnerVars, imuVars,
      gridVars>>
otherThanLoss ==
    <<bayesVars, simVars, cacheVars, typesVars, boundsVars, cohortVars,
      waveVars, tableVars, eiVars, stabVars, runnerVars, imuVars,
      gridVars>>
otherThanSim ==
    <<bayesVars, lossVars, cacheVars, typesVars, boundsVars, cohortVars,
      waveVars, tableVars, eiVars, stabVars, runnerVars, imuVars,
      gridVars>>
otherThanCache ==
    <<bayesVars, lossVars, simVars, typesVars, boundsVars, cohortVars,
      waveVars, tableVars, eiVars, stabVars, runnerVars, imuVars,
      gridVars>>
otherThanTypes ==
    <<bayesVars, lossVars, simVars, cacheVars, boundsVars, cohortVars,
      waveVars, tableVars, eiVars, stabVars, runnerVars, imuVars,
      gridVars>>
otherThanBounds ==
    <<bayesVars, lossVars, simVars, cacheVars, typesVars, cohortVars,
      waveVars, tableVars, eiVars, stabVars, runnerVars, imuVars,
      gridVars>>
otherThanCohort ==
    <<bayesVars, lossVars, simVars, cacheVars, typesVars, boundsVars,
      waveVars, tableVars, eiVars, stabVars, runnerVars, imuVars,
      gridVars>>
otherThanWave ==
    <<bayesVars, lossVars, simVars, cacheVars, typesVars, boundsVars,
      cohortVars, tableVars, eiVars, stabVars, runnerVars, imuVars,
      gridVars>>
otherThanTable ==
    <<bayesVars, lossVars, simVars, cacheVars, typesVars, boundsVars,
      cohortVars, waveVars, eiVars, stabVars, runnerVars, imuVars,
      gridVars>>
otherThanEi ==
    <<bayesVars, lossVars, simVars, cacheVars, typesVars, boundsVars,
      cohortVars, waveVars, tableVars, stabVars, runnerVars, imuVars,
      gridVars>>
otherThanStab ==
    <<bayesVars, lossVars, simVars, cacheVars, typesVars, boundsVars,
      cohortVars, waveVars, tableVars, eiVars, runnerVars, imuVars,
      gridVars>>
otherThanRunner ==
    <<bayesVars, lossVars, simVars, cacheVars, typesVars, boundsVars,
      cohortVars, waveVars, tableVars, eiVars, stabVars, imuVars,
      gridVars>>
otherThanImu ==
    <<bayesVars, lossVars, simVars, cacheVars, typesVars, boundsVars,
      cohortVars, waveVars, tableVars, eiVars, stabVars, runnerVars,
      gridVars>>
otherThanGrid ==
    <<bayesVars, lossVars, simVars, cacheVars, typesVars, boundsVars,
      cohortVars, waveVars, tableVars, eiVars, stabVars, runnerVars,
      imuVars>>

-----------------------------------------------------------------------------
(* Bounds of the model *)

MaxRows == 4
MaxBatch == 2
MaxCand == 3

-----------------------------------------------------------------------------
(* Program constants *)

fallback_min_samples == 3
TailN == 50
BoundsExpansionDen == 10

-----------------------------------------------------------------------------
(* Small helpers *)

Max(a, b) == IF a >= b THEN a ELSE b
Min(a, b) == IF a <= b THEN a ELSE b

Rat(n, d) == [num |-> n, den |-> d]
RatEq(a, b) == a.num * b.den = b.num * a.den
RatLeq(a, b) == a.num * b.den <= b.num * a.den

Range(s) == { s[i] : i \in DOMAIN s }

-----------------------------------------------------------------------------
(* Columns: one electrode, canonical order amp, freq_hz, pulse_width_s,    *)
(* phase_rad (_detect_param_columns).                                      *)

canonical == <<"amp", "freq_hz", "pulse_width_s", "phase_rad">>
NCols == Len(canonical)
ColIdx == 1..NCols

\* values a history row can hold (units: see the header)
P1 == <<30, 30, 30, 30>>
P2 == <<60, 30, 30, 30>>
P3 == <<30, 60, 30, 30>>
\* the rows the persistence layer appends: (parameters, severity)
Rows == { [p |-> P1, sev |-> 0], [p |-> P1, sev |-> 1],
          [p |-> P2, sev |-> 0], [p |-> P3, sev |-> 1] }

\* min_distance_frac values the model calls with: 1/2 and 2
MinDistChoices == { Rat(1, 2), Rat(2, 1) }

-----------------------------------------------------------------------------
(* Bayes.model: loading and feature construction *)

NeverEmpty(d) == FALSE

\* df.empty
IsEmpty(d) == Len(d) = 0

\* df.tail(n).reset_index(drop=True)
TailRows(d, n) == IF Len(d) <= n THEN d ELSE SubSeq(d, Len(d) - n + 1, Len(d))

\* df[cols].to_numpy() and df[severity_col].to_numpy()
RawX(d) == [i \in 1..Len(d) |-> d[i].p]
RawY(d) == [i \in 1..Len(d) |-> Rat(d[i].sev, 1)]

\* groupby sorts its groups by key: lexicographic order on the parameter row
LexLess(a, b) ==
    \E j \in ColIdx : a[j] < b[j] /\ \A i \in 1..(j - 1) : a[i] = b[i]

SortedKeys(S) ==
    CHOOSE s \in [1..Cardinality(S) -> S] :
        \A i, j \in 1..Cardinality(S) : i < j => LexLess(s[i], s[j])

RECURSIVE GroupSum(_, _)
GroupSum(d, k) ==
    IF d = <<>> THEN 0
    ELSE (IF Head(d).p = k THEN Head(d).sev ELSE 0) + GroupSum(Tail(d), k)

GroupCount(d, k) == Cardinality({ i \in 1..Len(d) : d[i].p = k })

\* .groupby(cols)[severity_col].mean(): the mean severity of the rows with key k
GroupMean(d, k) == Rat(GroupSum(d, k), GroupCount(d, k))

\* lines 261-271: X, y and the collapse of duplicate parameter rows
CollapseDuplicates(d) ==
    IF Len(d) > 1
    THEN LET keys == SortedKeys({ d[i].p : i \in 1..Len(d) })
         IN  [X |-> keys, y |-> [i \in 1..Len(keys) |-> GroupMean(d, keys[i])]]
    ELSE [X |-> RawX(d), y |-> RawY(d)]

FirstRowParams(d) == d[1].p

\* df[list(param_columns)].iloc[-1].to_dict()
LastRowParams(d) == d[Len(d)].p

-----------------------------------------------------------------------------
(* What a call returns or raises *)

NoResult ==
    [kind |-> "none", next_params |-> <<>>, next_params_batch |-> <<>>,
     model |-> "None", err |-> ""]

Raised(e) ==
    [kind |-> "error", next_params |-> <<>>, next_params_batch |-> <<>>,
     model |-> "None", err |-> e]

\* {"next_params": last, "model": None, "bounds": None}
FallbackResult(last) ==
    [kind |-> "fallback", next_params |-> last, next_params_batch |-> <<>>,
     model |-> "None", err |-> ""]

SuggestResult(best, batch) ==
    [kind |-> "suggest", next_params |-> best, next_params_batch |-> batch,
     model |-> "gp", err |-> ""]

-----------------------------------------------------------------------------
(* Bayes.model: search bounds (lines 346-374, no configured bounds) *)

\* name.rsplit("_", 1)[0]
BaseOf(j) == canonical[((j - 1) % NCols) + 1]

\* min_span_by_base, in the units of the header (minimum span = 3 units)
min_span_by_base ==
    [amp |-> 3, freq_hz |-> 3, pulse_width_s |-> 3, phase_rad |-> 3]

ColMin(M, j) == CHOOSE v \in { M[i][j] : i \in 1..Len(M) } :
                    \A i \in 1..Len(M) : v <= M[i][j]
ColMax(M, j) == CHOOSE v \in { M[i][j] : i \in 1..Len(M) } :
                    \A i \in 1..Len(M) : v >= M[i][j]

FloorAtZero(base, low) ==
    IF base \in {"amp", "freq_hz", "pulse_width_s"} THEN Max(0, low) ELSE low

InferLow(M, j) ==
    LET mn == ColMin(M, j)
        rg == ColMax(M, j) - mn
        lo == IF rg <= 0 THEN mn - min_span_by_base[BaseOf(j)]
              ELSE mn - (rg \div BoundsExpansionDen)
    IN  FloorAtZero(BaseOf(j), lo)

InferHigh(M, j) ==
    LET mx == ColMax(M, j)
        rg == mx - ColMin(M, j)
    IN  IF rg <= 0 THEN mx + min_span_by_base[BaseOf(j)]
        ELSE mx + (rg \div BoundsExpansionDen)

-----------------------------------------------------------------------------
(* Bayes.model: the candidate pool (lines 376-389).  rng.uniform draws are  *)
(* taken from a grid inside the box: the amp coordinate at 0, 1/3 or 2/3 of *)
(* its span with the other coordinates at their lower bound, and one point *)
(* with amp at its lower bound and the others at 1/3 of their span.  The   *)
(* surrogate's scores are any strict ranking of the pool.                   *)

CandPoint(low, high, fa, fo) ==
    [j \in ColIdx |->
        low[j] + ((IF j = 1 THEN fa ELSE fo) * (high[j] - low[j])) \div 3]

CandGrid(low, high) ==
    { CandPoint(low, high, fa, 0) : fa \in 0..2 } \cup { CandPoint(low, high, 0, 1) }

Pools(low, high) ==
    { SortedKeys(S) : S \in { T \in SUBSET CandGrid(low, high) :
                                Cardinality(T) \in 1..MaxCand } }

Rankings(n) ==
    { f \in [1..n -> 1..n] : \A i, j \in 1..n : i # j => f[i] # f[j] }

\* np.argsort(-score): candidate indices by decreasing score
ArgsortDesc(sc) ==
    CHOOSE o \in [1..Len(sc) -> 1..Len(sc)] :
        /\ \A i, j \in 1..Len(sc) : i # j => o[i] # o[j]
        /\ \A i, j \in 1..Len(sc) : i < j => sc[o[i]] >= sc[o[j]]

-----------------------------------------------------------------------------
(* Bayes.model: diversity filter in normalised parameter space (391-422)   *)

\* every span of the modelled grids (3, 6, 33, 36, 66, 72) divides NormScale
NormScale == 8 * 9 * 11

SpanOf(low, high, j) ==
    IF high[j] - low[j] <= 0 THEN 1 ELSE high[j] - low[j]

\* (v - param_low) / span, in units of 1 / NormScale
Normalize(v, low, high) ==
    [j \in ColIdx |-> ((v[j] - low[j]) * NormScale) \div SpanOf(low, high, j)]

RECURSIVE SumSq(_, _, _)
SumSq(a, b, j) ==
    IF j = 0 THEN 0 ELSE (a[j] - b[j]) * (a[j] - b[j]) + SumSq(a, b, j - 1)

\* squared np.linalg.norm of the difference, in units of 1 / NormScale^2
Dist2(u, v, low, high) ==
    SumSq(Normalize(u, low, high), Normalize(v, low, high), NCols)

\* max(0.0, float(min_distance_frac))
MinD(d) == IF d.num < 0 THEN Rat(0, 1) ELSE d

\* distance < min_d
TooClose(u, v, low, high, d) ==
    d.den * d.den * Dist2(u, v, low, high) < d.num * d.num * NormScale * NormScale

NeverCloseToObserved(v, M, low, high, d) == FALSE

\* np.any(d_obs < min_d)
CloseToObserved(v, M, low, high, d) ==
    \E r \in 1..Len(M) : TooClose(M[r], v, low, high, d)

NeverCloseToSelected(v, sel, cnd, low, high, d) == FALSE

\* np.any(d_sel < min_d)
CloseToSelected(v, sel, cnd, low, high, d) ==
    \E s \in 1..Len(sel) : TooClose(cnd[sel[s]], v, low, high, d)

\* max(1, int(batch_size))
BatchTarget(k) == Max(1, k)

\* the for loop of lines 398-412
RECURSIVE GreedyPass(_, _, _, _, _, _, _, _, _)
GreedyPass(order, i, sel, k, cnd, M, low, high, d) ==
    IF i > Len(order) \/ Len(sel) >= BatchTarget(k) THEN sel
    ELSE LET idx == order[i]
             v == cnd[idx]
         IN  IF CloseToObserved(v, M, low, high, d)
                  \/ CloseToSelected(v, sel, cnd, low, high, d)
             THEN GreedyPass(order, i + 1, sel, k, cnd, M, low, high, d)
             ELSE GreedyPass(order, i + 1, Append(sel, idx), k, cnd, M, low, high, d)

\* the while loop of lines 416-422: next unselected index in score order
RECURSIVE FillBatch(_, _, _)
FillBatch(order, sel, k) ==
    LET free == { i \in 1..Len(order) : order[i] \notin Range(sel) }
    IN  IF Len(sel) >= BatchTarget(k) \/ free = {} THEN sel
        ELSE LET first == CHOOSE i \in free : \A m \in free : i <= m
             IN  FillBatch(order, Append(sel, order[first]), k)

\* lines 414-422
Relax(order, sel, k) ==
    FillBatch(order, IF sel = <<>> THEN <<order[1]>> ELSE sel, k)

-----------------------------------------------------------------------------
(* Bayes.model as a state machine over one call:                           *)
(* load/features -> fit -> bounds/candidates/scores -> select -> return    *)

callVars == <<batch_size, min_distance_frac, df, X, y, fitted, param_low,
              param_high, cand, score, greedy_idx, selected_idx, result>>

InitBayes ==
    /\ history = <<>>
    /\ pc = "idle"
    /\ batch_size = 1
    /\ min_distance_frac = Rat(0, 1)
    /\ df = <<>>
    /\ X = <<>>
    /\ y = <<>>
    /\ fitted = FALSE
    /\ param_low = <<>>
    /\ param_high = <<>>
    /\ cand = <<>>
    /\ score = <<>>
    /\ greedy_idx = <<>>
    /\ selected_idx = <<>>
    /\ result = NoResult

\* the persistence layer appends one evaluated row (rows are append-only)
RecordObservation ==
    /\ pc = "idle"
    /\ Len(history) < MaxRows
    /\ \E r \in Rows : history' = Append(history, r)
    /\ UNCHANGED <<pc, callVars>>
    /\ UNCHANGED otherThanBayes

\* lines 203-277: read the table, reject an empty one, keep the last n rows,
\* build X and y, collapse duplicates, fall back on a tiny data set
ModelLoad ==
    /\ pc = "idle"
    /\ \E k \in 0..MaxBatch, d \in MinDistChoices :
         /\ batch_size' = k
         /\ min_distance_frac' = d
    /\ fitted' = FALSE
    /\ IF IsEmpty(history)
       THEN /\ result' = Raised("EmptyHistory")
            /\ pc' = "done"
            /\ UNCHANGED <<df, X, y>>
       ELSE LET d2 == TailRows(history, TailN)
                xy == CollapseDuplicates(d2)
            IN  /\ df' = d2
                /\ X' = xy.X
                /\ y' = xy.y
                /\ IF Len(xy.y) < fallback_min_samples
                   THEN /\ result' = (IF Len(d2) = 0 THEN Raised("IndexError")
                                      ELSE FallbackResult(LastRowParams(d2)))
                        /\ pc' = "done"
                   ELSE /\ result' = NoResult
                        /\ pc' = "loaded"
    /\ UNCHANGED <<history, param_low, param_high, cand, score, greedy_idx,
                   selected_idx>>
    /\ UNCHANGED otherThanBayes

\* lines 279-343: the target is re-read from the frame (line 290), inputs and
\* target are standardised and the Gaussian process is fitted; sklearn rejects
\* X and y of different lengths
ModelFit ==
    /\ pc = "loaded"
    /\ y' = RawY(df)
    /\ IF Len(X) # Len(y')
       THEN /\ result' = Raised("InconsistentSamples")
            /\ fitted' = FALSE
            /\ pc' = "done"
       ELSE /\ fitted' = TRUE
            /\ pc' = "fitted"
            /\ UNCHANGED result
    /\ UNCHANGED <<history, batch_size, min_distance_frac, df, X, param_low,
                   param_high, cand, score, greedy_idx, selected_idx>>
    /\ UNCHANGED otherThanBayes

\* lines 345-389: bounds, the uniform candidate pool and its scores
ModelSample ==
    /\ pc = "fitted"
    /\ LET low == [j \in ColIdx |-> InferLow(X, j)]
           high == [j \in ColIdx |-> InferHigh(X, j)]
       IN  /\ param_low' = low
           /\ param_high' = high
           /\ \E pool \in Pools(low, high) :
                /\ cand' = pool
                /\ \E sc \in Rankings(Len(pool)) : score' = sc
    /\ pc' = "scored"
    /\ UNCHANGED <<history, batch_size, min_distance_frac, df, X, y, fitted,
                   greedy_idx, selected_idx, result>>
    /\ UNCHANGED otherThanBayes

\* lines 391-438: diversity pass, relaxation, and the returned dict
ModelSelect ==
    /\ pc = "scored"
    /\ LET order == ArgsortDesc(score)
           g == GreedyPass(order, 1, <<>>, batch_size, cand, X, param_low,
                           param_high, MinD(min_distance_frac))
           sel == Relax(order, g, batch_size)
       IN  /\ greedy_idx' = g
           /\ selected_idx' = sel
           /\ result' = SuggestResult(cand[sel[1]],
                                      [i \in 1..Len(sel) |-> cand[sel[i]]])
    /\ pc' = "done"
    /\ UNCHANGED <<history, batch_size, min_distance_frac, df, X, y, fitted,
                   param_low, param_high, cand, score>>
    /\ UNCHANGED otherThanBayes

\* the caller takes the result; the next call starts from scratch
ModelReturn ==
    /\ pc = "done"
    /\ pc' = "idle"
    /\ batch_size' = 1
    /\ min_distance_frac' = Rat(0, 1)
    /\ df' = <<>>
    /\ X' = <<>>
    /\ y' = <<>>
    /\ fitted' = FALSE
    /\ param_low' = <<>>
    /\ param_high' = <<>>
    /\ cand' = <<>>
    /\ score' = <<>>
    /\ greedy_idx' = <<>>
    /\ selected_idx' = <<>>
    /\ result' = NoResult
    /\ UNCHANGED history
    /\ UNCHANGED otherThanBayes

NextBayes ==
    \/ RecordObservation
    \/ ModelLoad
    \/ ModelFit
    \/ ModelSample
    \/ ModelSelect
    \/ ModelReturn


-----------------------------------------------------------------------------
(* Properties of Bayes.model *)

\* a batch entry is far enough from every observation and every other entry
BatchDiverse ==
    /\ \A i \in 1..Len(selected_idx) :
         ~CloseToObserved(cand[selected_idx[i]], X, param_low, param_high,
                          MinD(min_distance_frac))
    /\ \A i, j \in 1..Len(selected_idx) :
         i # j => ~TooClose(cand[selected_idx[i]], cand[selected_idx[j]],
                            param_low, param_high, MinD(min_distance_frac))

\* the pool holds some set of batch_size candidates that satisfies the constraint
FeasibleBatch ==
    \E S \in SUBSET (1..Len(cand)) :
        /\ Cardinality(S) = BatchTarget(batch_size)
        /\ \A i \in S : ~CloseToObserved(cand[i], X, param_low, param_high,
                                         MinD(min_distance_frac))
        /\ \A i, j \in S :
             i # j => ~TooClose(cand[i], cand[j], param_low, param_high,
                                MinD(min_distance_frac))

HasDuplicates(d) == \E i, j \in 1..Len(d) : i # j /\ d[i].p = d[j].p

\* C1: for a history of at least fallback_min_samples rows and batch_size
\* k >= 1, the call returns a next_params_batch of exactly k candidates.
C1_BatchHasExactlyK ==
    (pc = "done" /\ Len(history) >= fallback_min_samples /\ batch_size >= 1)
        => (result.kind = "suggest"
            /\ Len(result.next_params_batch) = batch_size)

C3_FeasibleImpliesDiverse ==
    (pc = "done" /\ result.kind = "suggest" /\ FeasibleBatch) => BatchDiverse

\* C3 (amended): whenever the greedy pass in decreasing score order accepts
\* batch_size candidates, each at distance >= min_distance_frac from every
\* observation and from every candidate accepted before it, the returned
\* batch is exactly those candidates and has the distance property.
C3_GreedyFullImpliesDiverse ==
    (pc = "done" /\ result.kind = "suggest"
     /\ Len(greedy_idx) = BatchTarget(batch_size))
        => (selected_idx = greedy_idx /\ BatchDiverse)

C3_Witness ==
    /\ pc = "done"
    /\ result.kind = "suggest"
    /\ batch_size = 2
    /\ min_distance_frac = Rat(1, 2)
    /\ Len(cand) = 3
    /\ Len(greedy_idx) = 2
    /\ BatchDiverse

\* C4: when the history holds rows with identical parameters and a surrogate
\* is to be fitted, it is fitted on one row per distinct parameter vector
\* whose target is the mean severity of the rows with that vector, feature
\* matrix and target vector having the same number of rows.
C4_FitOnCollapsedMeans ==
    (pc = "done" /\ HasDuplicates(df) /\ Len(X) >= fallback_min_samples)
        => /\ fitted
           /\ Len(y) = Len(X)
           /\ \A i \in 1..Len(X) :
                /\ \A j \in 1..Len(X) : i # j => X[i] # X[j]
                /\ i <= Len(y) => RatEq(y[i], GroupMean(df, X[i]))

\* candidates at normalised distance >= min_distance_frac from every observation
FarFromObserved ==
    { i \in 1..Len(cand) :
        \A r \in 1..Len(X) :
            ~TooClose(X[r], cand[i], param_low, param_high,
                      MinD(min_distance_frac)) }

\* i scores at least as high as every candidate of S
BestOf(i, S) == \A m \in S : score[i] >= score[m]

\* C25: when a surrogate is fitted, next_params is the first element of
\* next_params_batch, and it is the highest-scoring candidate among those at
\* normalised distance >= min_distance_frac from every observed point, or the
\* highest-scoring candidate of the whole pool when there is none.
C25_NextParamsIsBestFarCandidate ==
    (pc = "done" /\ fitted /\ result.kind = "suggest")
        => /\ result.next_params = result.next_params_batch[1]
           /\ \E i \in 1..Len(cand) :
                /\ result.next_params = cand[i]
                /\ IF FarFromObserved # {}
                   THEN i \in FarFromObserved /\ BestOf(i, FarFromObserved)
                   ELSE BestOf(i, 1..Len(cand))

C25_Witness ==
    /\ pc = "done"
    /\ fitted
    /\ result.kind = "suggest"
    /\ FarFromObserved # {}
    /\ \E m \in 1..Len(cand) : m \notin FarFromObserved /\ BestOf(m, 1..Len(cand))
    /\ result.next_params = cand[selected_idx[1]]
    /\ selected_idx[1] \in FarFromObserved

\* the severity the frame records for parameter row k (rows with distinct k)
RecordedSeverity(d, k) == Rat((CHOOSE r \in Range(d) : r.p = k).sev, 1)

\* C28: for a history of at least fallback_min_samples rows with pairwise
\* distinct parameter vectors, in any row order, the target at position i of
\* the target vector is the severity recorded for the parameter row at
\* position i of the feature matrix.
C28_TargetsAlignedWithRows ==
    (fitted /\ Len(df) >= fallback_min_samples /\ ~HasDuplicates(df))
        => /\ Len(y) = Len(X)
           /\ { X[i] : i \in 1..Len(X) } = { df[i].p : i \in 1..Len(df) }
           /\ \A i \in 1..Len(X) : RatEq(y[i], RecordedSeverity(df, X[i]))

\* the rows of the frame are in the order groupby gives them
SortedByParams(d) == \A i, j \in 1..Len(d) : i < j => LexLess(d[i].p, d[j].p)

\* C10: a call on a history with no data rows raises the empty-history error,
\* returns no suggestion and does not take the last-row fallback.
C10_EmptyHistoryRaises ==
    (pc = "done" /\ Len(history) = 0)
        => /\ result.kind = "error"
           /\ result.err = "EmptyHistory"
           /\ result.next_params = <<>>
           /\ ~fitted

C10_Witness ==
    /\ pc = "done"
    /\ history = <<>>
    /\ result.kind = "error"

-----------------------------------------------------------------------------
(* calculate_loss: the scoring arithmetic (loss.py lines 532-540 and        *)
(* 569-631) as functions of the values the simulations and the lookups     *)
(* produced.  RMS values are integers in a unit in which everything below  *)
(* 1e-12 is 0; motor, non-motor and duration components are in halves;     *)
(* weights are in hundredths.                                              *)

MaxRms == 4
MaxPred == 3

\* 1e-12 (line 536) in RMS units
RmsFloor == 1
\* 1 / 1e-9 (line 256) with weights in hundredths
WeightEpsInv == 10000000
\* DEFAULT_WEIGHT_MOTOR, DEFAULT_WEIGHT_NON_MOTOR, DEFAULT_WEIGHT_DURATION
DEFAULT_WEIGHT_MOTOR == 33
DEFAULT_WEIGHT_NON_MOTOR == 33
DEFAULT_WEIGHT_DURATION == 34
\* DEFAULT_NON_MOTOR_DIARY_RATIO, in halves
DEFAULT_NON_MOTOR_DIARY_RATIO == 1

\* np.clip on integers
Clip(x, lo, hi) == IF x < lo THEN lo ELSE IF x > hi THEN hi ELSE x

RatNoClip(r, lo, hi) == r

\* np.clip on a rational with positive denominator, integer limits
RatClip(r, lo, hi) ==
    IF r.num < lo * r.den THEN Rat(lo, 1)
    ELSE IF r.num > hi * r.den THEN Rat(hi, 1)
    ELSE r

\* lines 536-540
AnalyticalSeverity(rms_baseline, rms_stim) ==
    IF rms_baseline < RmsFloor THEN Rat(0, 1)
    ELSE LET suppression == RatClip(Rat(rms_baseline - rms_stim, rms_baseline), 0, 1)
         IN  Rat(suppression.den - 2 * suppression.num, suppression.den)

\* line 569: motor_component, in halves (pred is the mean window prediction)
MotorComponent(pred) == Clip(pred, -2, 2)

\* _normalize_weights: total = max(1e-9, sum), as a rational
WeightTotal(w) ==
    IF w[1] + w[2] + w[3] >= 1 THEN Rat(w[1] + w[2] + w[3], 1)
    ELSE Rat(1, WeightEpsInv)

\* _normalize_weights (lines 255-257): each weight over the total
normalize_weights(w) ==
    [i \in 1..3 |-> Rat(w[i] * WeightTotal(w).den, WeightTotal(w).num)]

\* TreatmentGoals.__post_init__ (treatment_goals.py lines 32-35)
ValidTreatmentGoals(w) == \A i \in 1..3 : w[i] >= 0

\* TreatmentGoals.normalize (lines 47-69); weights in hundredths, so a total
\* below 1e-6 is the total 0
TreatmentGoalsNormalize(w) ==
    IF w[1] + w[2] + w[3] < 1 THEN [i \in 1..3 |-> Rat(1, 3)]
    ELSE [i \in 1..3 |-> Rat(w[i], w[1] + w[2] + w[3])]

NoGoals == <<>>
NoContext == [present |-> FALSE, has_row |-> FALSE, row_w |-> <<0, 0, 0>>,
              row_ratio |-> 0, diary_delta |-> 0, standard_delta |-> 0,
              duration |-> 0]

\* lines 579-596: explicit goals first, then the patient row, then defaults
ResolveWeights(goals, ctx) ==
    IF goals # NoGoals THEN goals.w
    ELSE IF ctx.present /\ ctx.has_row THEN ctx.row_w
    ELSE <<DEFAULT_WEIGHT_MOTOR, DEFAULT_WEIGHT_NON_MOTOR, DEFAULT_WEIGHT_DURATION>>

\* lines 597-602 and _extract_non_motor_diary_ratio, in halves: a ratio taken
\* from explicit goals is clipped to [0, 1], the default is used as it is
ResolveDiaryRatio(goals, ctx) ==
    IF goals # NoGoals THEN Clip(goals.ratio, 0, 2)
    ELSE IF ctx.present /\ ctx.has_row THEN ctx.row_ratio
    ELSE DEFAULT_NON_MOTOR_DIARY_RATIO

\* lines 605-622, in halves: 0 without context, else clip(2 * nm01 - 1, -1, 1)
\* with nm01 = ratio * diary_delta + (1 - ratio) * standard_delta
NonMotorComponent(goals, ctx) ==
    IF ~ctx.present THEN 0
    ELSE LET r == ResolveDiaryRatio(goals, ctx)
             nm01 == r * ctx.diary_delta + (2 - r) * ctx.standard_delta
         IN  Clip(2 * nm01 - 2, -2, 2)

\* line 624: tanh(years / 10) of the patient row, else 0; in halves
DurationComponent(ctx) == IF ctx.present /\ ctx.has_row THEN ctx.duration ELSE 0

\* lines 626-630 before the final clip: sum of w_i / total * component_i
ComposedRaw(pred, goals, ctx) ==
    LET w == ResolveWeights(goals, ctx)
        tot == WeightTotal(w)
        n == w[1] * MotorComponent(pred) + w[2] * NonMotorComponent(goals, ctx)
             + w[3] * DurationComponent(ctx)
    IN  Rat(n * tot.den, 2 * tot.num)

\* lines 569-631: what the model-based backends return
CompositeSeverity(pred, goals, has_patient_id, ctx) ==
    IF goals = NoGoals /\ ~has_patient_id THEN Rat(MotorComponent(pred), 2)
    ELSE RatClip(ComposedRaw(pred, goals, ctx), -1, 1)

\* treatment goals a caller passes: weights (hundredths) and diary ratio (halves)
GoalChoices ==
    { NoGoals,
      [w |-> <<55, 35, 10>>, ratio |-> 1],
      [w |-> <<0, 0, 0>>, ratio |-> 0],
      [w |-> <<200, -100, 0>>, ratio |-> 3],
      [w |-> <<1, -1, 0>>, ratio |-> 2] }

\* what _fetch_patient_context yields for a patient id
ContextChoices ==
    { NoContext }
    \cup { [present |-> TRUE, has_row |-> FALSE, row_w |-> <<0, 0, 0>>,
            row_ratio |-> 0, diary_delta |-> dd, standard_delta |-> sd,
            duration |-> 0] : dd \in 0..1, sd \in 0..1 }
    \cup { [present |-> TRUE, has_row |-> TRUE, row_w |-> rw, row_ratio |-> rr,
            diary_delta |-> dd, standard_delta |-> 0, duration |-> du] :
            rw \in { <<33, 33, 34>>, <<100, 0, -50>> }, rr \in {1, 4},
            dd \in 0..1, du \in 0..1 }

InitLoss ==
    /\ loss_pc = "idle"
    /\ loss_in = <<>>
    /\ loss_raw = Rat(0, 1)
    /\ loss_out = Rat(0, 1)

\* lines 532-540 for the two RMS values the simulations gave
ScoreAnalytical ==
    /\ \E b \in 0..MaxRms, s \in 0..MaxRms :
         /\ loss_in' = [backend |-> "analytical", rms_baseline |-> b, rms_stim |-> s]
         /\ loss_raw' = (IF b < RmsFloor THEN Rat(0, 1) ELSE Rat(b - s, b))
         /\ loss_out' = AnalyticalSeverity(b, s)
    /\ loss_pc' = "scored"
    /\ UNCHANGED otherThanLoss

\* lines 569-631 for a mean prediction, goals and patient context
ScoreModelBased ==
    /\ \E pred \in (-MaxPred)..MaxPred, goals \in GoalChoices,
          has_id \in BOOLEAN, ctx \in ContextChoices :
         /\ (ctx.present => has_id)
         /\ loss_in' = [backend |-> "model", pred |-> pred, goals |-> goals,
                        has_patient_id |-> has_id, ctx |-> ctx,
                        weights |-> IF goals = NoGoals /\ ~has_id THEN <<>>
                                    ELSE normalize_weights(ResolveWeights(goals, ctx))]
         /\ loss_raw' = ComposedRaw(pred, goals, ctx)
         /\ loss_out' = CompositeSeverity(pred, goals, has_id, ctx)
    /\ loss_pc' = "scored"
    /\ UNCHANGED otherThanLoss

\* the weights of TreatmentGoals objects
GoalWeightChoices ==
    { <<55, 35, 10>>, <<70, 20, 10>>, <<200, 0, 0>>, <<0, 0, 1>>, <<0, 0, 0>>,
      <<0 - 10, 50, 60>> }

\* TreatmentGoals(w_diag, w_nms, w_dur).normalize()
NormalizeGoals ==
    /\ \E w \in GoalWeightChoices :
         /\ ValidTreatmentGoals(w)
         /\ loss_in' = [backend |-> "goals", w |-> w,
                        weights |-> TreatmentGoalsNormalize(w)]
    /\ loss_pc' = "normalized"
    /\ UNCHANGED <<loss_raw, loss_out>>
    /\ UNCHANGED otherThanLoss

NextLoss ==
    \/ ScoreAnalytical
    \/ ScoreModelBased
    \/ NormalizeGoals

-----------------------------------------------------------------------------
(* Properties of the scoring arithmetic *)

\* C5: analytical backend with rms_baseline > 0: severity -1 when
\* rms_stim = 0, severity 0 when rms_stim = rms_baseline, and a positive
\* severity only when rms_stim > rms_baseline.
C5_AnalyticalScale ==
    (loss_pc = "scored" /\ loss_in.backend = "analytical"
     /\ loss_in.rms_baseline > 0)
        => /\ loss_in.rms_stim = 0 => RatEq(loss_out, Rat(-1, 1))
           /\ loss_in.rms_stim = loss_in.rms_baseline => RatEq(loss_out, Rat(0, 1))
           /\ loss_out.num > 0 => loss_in.rms_stim > loss_in.rms_baseline

C11_MissingContextMotorOnly ==
    (loss_pc = "scored" /\ loss_in.backend = "model" /\ ~loss_in.ctx.present)
        => RatEq(loss_out, Rat(MotorComponent(loss_in.pred), 2))

\* three weights, none negative, that sum to 1
NonNegativeSumToOne(ws) ==
    /\ \A i \in 1..3 : ws[i].den > 0 /\ ws[i].num >= 0
    /\ ws[1].num * ws[2].den * ws[3].den + ws[2].num * ws[1].den * ws[3].den
       + ws[3].num * ws[1].den * ws[2].den
          = ws[1].den * ws[2].den * ws[3].den

\* C18: weight normalisation yields non-negative weights that sum to 1:
\* TreatmentGoals.normalize() for any TreatmentGoals, and _normalize_weights
\* as calculate_loss applies it before blending, for any weights given.
C18_WeightsNormalized ==
    /\ loss_pc = "normalized" => NonNegativeSumToOne(loss_in.weights)
    /\ (loss_pc = "scored" /\ loss_in.backend = "model" /\ loss_in.weights # <<>>)
          => NonNegativeSumToOne(loss_in.weights)

-----------------------------------------------------------------------------
(* Simulator.run: encoder, brain model, periphery and sensor, with the      *)
(* random generator each stage draws from.  Floating-point arithmetic is    *)
(* replaced by integer arithmetic with the same data flow: time is in      *)
(* steps of dt, pulse timing in half steps, the encoded drive in half      *)
(* amplitudes.  The generator is a small congruential generator.           *)

MaxRuns == 3
MaxStimuli == 2

\* Python's None, outside the ranges of seeds and of generator states
None == 0 - 1

RngStates == 0..7
Seeds == 0..1

\* np.random.default_rng(seed)
DefaultRng(seed) == (3 * seed + 1) % 8

\* the generator after one draw, and the value drawn from state s
Advance(s) == (5 * s + 3) % 8
Gauss(s) == (s % 3) - 1

RECURSIVE AdvanceBy(_, _)
AdvanceBy(s, n) == IF n = 0 THEN s ELSE AdvanceBy(Advance(s), n - 1)

\* rng.standard_normal(n) / rng.normal(size = n): n successive draws
Draws(s, n) == [i \in 1..n |-> Gauss(AdvanceBy(s, i - 1))]

CallerGenerator(rng, seed) == caller_rng

\* simulator.py lines 30-31: the caller's generator, else one made from the
\* seed (an integer in every call modelled here)
GeneratorFor(rng, seed) == IF rng # None THEN rng ELSE DefaultRng(seed)

\* RolloutConfig.n_steps and RolloutConfig.t (time in steps of dt) for the
\* configs of this part, whose duration_s is a multiple of dt
NSteps(cfg) == (cfg.duration_s \div cfg.dt) + 1
TimeGrid(cfg) == [i \in 1..NSteps(cfg) |-> (i - 1) * cfg.dt]

\* integral over [0, x] of the periodic on-indicator, x >= 0
PeriodicOnIntegral(x, p, w) == (x \div p) * w + Min(x % p, w)

ConstantAmplitude(t, ch) == [i \in 1..Len(t) |-> 2 * ch.amp]

\* square_pulse_train; period, width and tau in half steps, result in half
\* amplitudes.  Lines 19-24 treat the empty grid and the grid of one sample
SquarePulseTrain(t, ch) ==
    IF ch.freq_hz <= 0 THEN [i \in 1..Len(t) |-> 0]
    ELSE IF Len(t) = 0 THEN <<>>
    ELSE IF Len(t) = 1
    THEN LET shifted == (2 * t[1] + ch.tau) % ch.period
         IN  << IF shifted < ch.pulse_width_s THEN 2 * ch.amp ELSE 0 >>
    ELSE LET period == ch.period
             width == Clip(ch.pulse_width_s, 0, period)
             a == [i \in 1..Len(t) |-> 2 * t[i] + ch.tau - 1]
             min_a == a[1]
             shift == IF min_a < 0
                      THEN (((-min_a) + period - 1) \div period + 1) * period
                      ELSE 0
             on_time == [i \in 1..Len(t) |->
                            PeriodicOnIntegral(a[i] + 2 + shift, period, width)
                            - PeriodicOnIntegral(a[i] + shift, period, width)]
         IN  IF width <= 0 THEN [i \in 1..Len(t) |-> 0]
             ELSE IF width >= period THEN [i \in 1..Len(t) |-> 2 * ch.amp]
             ELSE [i \in 1..Len(t) |-> ch.amp * Clip(on_time[i], 0, 2)]

RECURSIVE SumChannels(_, _, _)
SumChannels(t, stim, k) ==
    IF k = 0 THEN [i \in 1..Len(t) |-> 0]
    ELSE LET rest == SumChannels(t, stim, k - 1)
             u == SquarePulseTrain(t, stim[k])
         IN  [i \in 1..Len(t) |-> rest[i] + u[i]]

\* WaveformEncoder.encode with reduction "sum"
Encode(t, stim) == SumChannels(t, stim, Len(stim))

\* BGTCSLite.simulate lines 73-82: state <<z, v>> after step i
RECURSIVE BrainState(_, _, _, _)
BrainState(i, drive_in, noise_drive, patient) ==
    IF i = 1 THEN <<0, 0>>
    ELSE LET prev == BrainState(i - 1, drive_in, noise_drive, patient)
             u == drive_in[i - 1]
             stim_rms == IF u < 0 THEN -u ELSE u
             eff_damp == patient.brain.base_damp + patient.brain.inhibition * stim_rms
             a == -eff_damp * prev[2] - patient.brain.omega_sq * prev[1]
                  + patient.brain.coupling * u
             v == prev[2] + a + noise_drive[i - 1]
         IN  <<prev[1] + v, v>>

\* BGTCSLite.simulate: n draws for the drive noise, then the integration;
\* yields the latent drive and the generator after the draws
BrainSimulate(t, stimulation, patient, rng) ==
    LET n == Len(t)
        noise_drive == Draws(rng, n)
    IN  [drive |-> [i \in 1..n |-> BrainState(i, stimulation, noise_drive, patient)[1]],
         rng |-> AdvanceBy(rng, n)]

Axes == 1..3

\* SpringMass3D.simulate lines 37-41: <<pos, vel, acc of the previous step>>
RECURSIVE PeripheryState(_, _, _)
PeripheryState(i, drive, patient) ==
    IF i = 1 THEN << <<0, 0, 0>>, <<0, 0, 0>>, <<0, 0, 0>> >>
    ELSE LET prev == PeripheryState(i - 1, drive, patient)
             acc == [x \in Axes |-> patient.periphery.a_pos * prev[1][x]
                                    + patient.periphery.a_vel * prev[2][x]
                                    + patient.periphery.gain * patient.periphery.mix[x]
                                      * drive[i - 1]]
             vel == [x \in Axes |-> prev[2][x] + acc[x]]
             pos == [x \in Axes |-> prev[1][x] + vel[x]]
         IN  <<pos, vel, acc>>

\* SpringMass3D.simulate: acc[i-1] is computed in step i, acc[-1] = acc[-2];
\* the generator is not used
PeripherySimulate(t, latent, patient) ==
    LET n == Len(t)
    IN  [pos |-> [i \in 1..n |-> PeripheryState(i, latent, patient)[1]],
         vel |-> [i \in 1..n |-> PeripheryState(i, latent, patient)[2]],
         acc |-> [i \in 1..n |->
                    IF n = 1 THEN <<0, 0, 0>>
                    ELSE IF i < n THEN PeripheryState(i + 1, latent, patient)[3]
                    ELSE PeripheryState(n, latent, patient)[3]]]

EveryStep(n, stride) == [k \in 1..n |-> k]

\* imu.py line 25: np.arange(0, n, stride), as 1-based positions
SampleIdx(n, stride) == [k \in 1..((n + stride - 1) \div stride) |-> (k - 1) * stride + 1]

\* GaussianNoiseModel.sample for an (m, 3) array: m * 3 draws, row by row
NoiseSample(rng, m) ==
    [k \in 1..m |-> [x \in Axes |-> Gauss(AdvanceBy(rng, 3 * (k - 1) + x - 1))]]

\* IMUModel.observe: downsample, then with include_noise draw the bias and
\* the three noise arrays in this order
Observe(t, kin, cfg, patient, rng) ==
    LET idx == SampleIdx(Len(t), cfg.stride)
        m == Len(idx)
        out_t == [k \in 1..m |-> t[idx[k]]]
        bias == Draws(rng, 3)
        r1 == AdvanceBy(rng, 3)
        n_pos == NoiseSample(r1, m)
        r2 == AdvanceBy(r1, 3 * m)
        n_vel == NoiseSample(r2, m)
        r3 == AdvanceBy(r2, 3 * m)
        n_acc == NoiseSample(r3, m)
        r4 == AdvanceBy(r3, 3 * m)
    IN  IF cfg.include_noise
        THEN [out |-> [t |-> out_t,
                       pos |-> [k \in 1..m |-> [x \in Axes |->
                                  kin.pos[idx[k]][x] + n_pos[k][x] + bias[x]
                                  + (out_t[k] - out_t[1]) * patient.sensor.drift_per_s]],
                       vel |-> [k \in 1..m |-> [x \in Axes |-> kin.vel[idx[k]][x] + n_vel[k][x]]],
                       acc |-> [k \in 1..m |-> [x \in Axes |-> kin.acc[idx[k]][x] + n_acc[k][x]]]],
              rng |-> r4]
        ELSE [out |-> [t |-> out_t,
                       pos |-> [k \in 1..m |-> kin.pos[idx[k]]],
                       vel |-> [k \in 1..m |-> kin.vel[idx[k]]],
                       acc |-> [k \in 1..m |-> kin.acc[idx[k]]]],
              rng |-> rng]

\* Simulator.run lines 32-36 for the generator chosen in lines 30-31: the
\* MeasurementOutput and the generator state the run leaves behind
SimulatorRun(stim, patient, cfg, rng) ==
    LET t == TimeGrid(cfg)
        stimulation == Encode(t, stim)
        latent == BrainSimulate(t, stimulation, patient, rng)
        kin == PeripherySimulate(t, latent.drive, patient)
    IN  Observe(t, kin, cfg, patient, latent.rng)

\* half steps per second: dt is a quarter of a second
HalfStepsPerSecond == 2 * 4

\* one stimulation channel; period = 1 / freq_hz and
\* tau = phase / (2 pi freq_hz) with the phase in quarter turns
Channel(amp, freq_hz, pulse_width_s, phase) ==
    [amp |-> amp, freq_hz |-> freq_hz, pulse_width_s |-> pulse_width_s,
     period |-> IF freq_hz > 0 THEN HalfStepsPerSecond \div freq_hz ELSE 0,
     tau |-> IF freq_hz > 0 THEN (phase * (HalfStepsPerSecond \div freq_hz)) \div 4 ELSE 0]

StimChoices == { <<Channel(0, 2, 1, 0)>>, <<Channel(2, 2, 1, 0)>> }

\* the zero-amplitude copy of a stimulation (loss.py lines 494-499)
ZeroStim(stim) == [k \in 1..Len(stim) |-> [stim[k] EXCEPT !.amp = 0]]

Patient(coupling) ==
    [brain |-> [base_damp |-> 0, inhibition |-> 1, omega_sq |-> 1, coupling |-> coupling],
     periphery |-> [a_pos |-> 0 - 1, a_vel |-> 0 - 1, gain |-> 1, mix |-> <<3, 2, 1>>],
     sensor |-> [drift_per_s |-> 1]]

Patients == { Patient(1), Patient(2) }

\* rollout configs: three steps of dt, every second sample kept
Config(include_noise) ==
    [dt |-> 1, duration_s |-> 3, stride |-> 2, include_noise |-> include_noise]

Configs == { Config(TRUE), Config(FALSE) }

\* no run made yet; the caller-held generator is the one generate_rollouts
\* makes from its default seed 0
InitSim ==
    /\ sim_done = {}
    /\ caller_rng = DefaultRng(0)
    /\ sim_runs = 0
    /\ rollouts = {}
    /\ gen_err = FALSE

\* Simulator.run(stim, patient, config, seed = s)
RunSeeded ==
    /\ sim_runs < MaxRuns
    /\ \E stim \in StimChoices, patient \in Patients, cfg \in Configs,
          seed \in Seeds :
         LET r == SimulatorRun(stim, patient, cfg, GeneratorFor(None, seed))
         IN  sim_done' = sim_done \cup
                { [stim |-> stim, patient |-> patient, config |-> cfg,
                   seed |-> seed, out |-> r.out] }
    /\ sim_runs' = sim_runs + 1
    /\ UNCHANGED <<caller_rng, rollouts, gen_err>>
    /\ UNCHANGED otherThanSim

\* Simulator.run(stim, patient, config, rng = g) with a generator the caller
\* keeps using (generate_rollouts, calculate_loss): the run advances it
RunWithGenerator ==
    /\ sim_runs < MaxRuns
    /\ \E stim \in StimChoices, patient \in Patients, cfg \in Configs :
         LET r == SimulatorRun(stim, patient, cfg, GeneratorFor(caller_rng, None))
         IN  caller_rng' = r.rng
    /\ sim_runs' = sim_runs + 1
    /\ UNCHANGED <<sim_done, rollouts, gen_err>>
    /\ UNCHANGED otherThanSim

\* the lists a caller hands to generate_rollouts
StimuliLists == UNION { [1..n -> StimChoices] : n \in 0..MaxStimuli }
PatientLists == UNION { [1..n -> Patients] : n \in 0..MaxStimuli }

\* generate.py lines 22-25: one generator made from the seed, handed to
\* every run of the loop in turn; <<outputs, generator>> after k pairs
RECURSIVE RolloutLoop(_, _, _, _, _)
RolloutLoop(stimuli, patients, cfg, seed, k) ==
    IF k = 0 THEN [outputs |-> <<>>, rng |-> DefaultRng(seed)]
    ELSE LET before == RolloutLoop(stimuli, patients, cfg, seed, k - 1)
             r == SimulatorRun(stimuli[k], patients[k], cfg,
                               GeneratorFor(before.rng, None))
         IN  [outputs |-> Append(before.outputs, r.out), rng |-> r.rng]

\* generate_rollouts(simulator, stimuli, patients, config, seed)
generate_rollouts(stimuli, patients, cfg, seed) ==
    IF Len(stimuli) # Len(patients)
    THEN [err |-> TRUE, outputs |-> <<>>]
    ELSE [err |-> FALSE,
          outputs |-> RolloutLoop(stimuli, patients, cfg, seed, Len(stimuli)).outputs]

\* one generate_rollouts call; every pair of the lists is one run.  The call
\* makes its own generator and reads nothing that a run leaves behind, so
\* each behaviour makes it once, ahead of the seeded runs
GenerateRollouts ==
    /\ sim_done = {} /\ rollouts = {} /\ ~gen_err
    /\ \E stimuli \in StimuliLists, patients \in PatientLists,
          cfg \in Configs, seed \in Seeds :
         LET g == generate_rollouts(stimuli, patients, cfg, seed)
             n == Len(g.outputs)
         IN  /\ sim_runs + n <= MaxRuns
             /\ gen_err' = g.err
             /\ rollouts' = rollouts \cup
                    { [stim |-> stimuli[i], patient |-> patients[i],
                       config |-> cfg, seed |-> seed, out |-> g.outputs[i]]
                      : i \in 1..n }
             /\ sim_runs' = sim_runs + n
    /\ UNCHANGED <<sim_done, caller_rng>>
    /\ UNCHANGED otherThanSim

NextSim ==
    \/ RunSeeded
    \/ RunWithGenerator
    \/ GenerateRollouts

-----------------------------------------------------------------------------
(* Properties of Simulator.run *)

RECURSIVE EnergySum(_, _)
EnergySum(out, k) ==
    IF k = 0 THEN 0
    ELSE LET e == [x \in Axes |-> out.pos[k][x] * out.pos[k][x]
                                  + out.vel[k][x] * out.vel[k][x]]
         IN  e[1] + e[2] + e[3] + EnergySum(out, k - 1)

\* the bound of check_energy_bound in the units of the model: above the
\* energy of every run without stimulation
EnergyBound == 100

EnergyTooHigh(out) == EnergySum(out, Len(out.pos)) > EnergyBound * Len(out.pos)

\* C13: Simulator.run never returns a MeasurementOutput whose trajectory
\* energy exceeds the energy bound (or that holds a non-finite value): such
\* a run fails instead of returning the trace.
C13_NoUnstableOutputReturned ==
    \A r \in sim_done : ~EnergyTooHigh(r.out)

\* the largest |pos| of a MeasurementOutput (np.max(np.abs(out.pos)))
Abs(x) == IF x < 0 THEN -x ELSE x

RECURSIVE MaxAbsPos(_, _)
MaxAbsPos(out, k) ==
    IF k = 0 THEN 0
    ELSE Max(Max(Abs(out.pos[k][1]), Max(Abs(out.pos[k][2]), Abs(out.pos[k][3]))),
             MaxAbsPos(out, k - 1))

\* C21: the output of a rollout for given stimulation, patient, config and
\* seed is the same whatever rollouts ran before it, for the seeded runs of
\* Simulator.run and for the rollouts of generate_rollouts alike.
C21_RolloutIndependentOfEarlier ==
    \A r1 \in sim_done \cup rollouts, r2 \in sim_done \cup rollouts :
        (r1.stim = r2.stim /\ r1.patient = r2.patient
         /\ r1.config = r2.config /\ r1.seed = r2.seed)
            => r1.out = r2.out

-----------------------------------------------------------------------------
(* The analytical backend of calculate_loss with its baseline cache file,   *)
(* evaluated by several processes at once (the worker pool of               *)
(* run_bayes_iterations.run).  Each access to the cache file is one step.   *)

NWorkers == 2
MaxCalls == 3

Workers == 1..NWorkers

\* _acc_rms: root of the mean squared acceleration, in tenths, rounded down
RECURSIVE ISqrtFrom(_, _)
ISqrtFrom(n, r) == IF (r + 1) * (r + 1) > n THEN r ELSE ISqrtFrom(n, r + 1)

RECURSIVE SumSqRows(_, _)
SumSqRows(acc, k) ==
    IF k = 0 THEN 0
    ELSE SumSqRows(acc, k - 1)
         + acc[k][1] * acc[k][1] + acc[k][2] * acc[k][2] + acc[k][3] * acc[k][3]

AccRms(out) ==
    ISqrtFrom((100 * SumSqRows(out.acc, Len(out.acc))) \div (3 * Len(out.acc)), 0)

\* calculate_loss lines 471-477: the rollout config and the patient drawn
\* from default_rng(seed)
LossConfig == Config(TRUE)
LossPatient(seed) == Patient(1 + ((Gauss(DefaultRng(seed)) + 1) % 2))

\* lines 519-526: the zero-amplitude run with generator default_rng(seed + 1)
BaselineRms(call) ==
    AccRms(SimulatorRun(ZeroStim(call.stim), LossPatient(call.seed), LossConfig,
                        DefaultRng(call.seed + 1)).out)

\* lines 532-535: the run with the stimulation, same generator seed
StimRms(call) ==
    AccRms(SimulatorRun(call.stim, LossPatient(call.seed), LossConfig,
                        DefaultRng(call.seed + 1)).out)

\* what the call returns when it computes the baseline itself
UncachedSeverity(call) == AnalyticalSeverity(BaselineRms(call), StimRms(call))

\* _baseline_cache_key
BaselineCacheKey(patient_id, seed, n_channels, duration_s, dt) ==
    <<patient_id, seed, n_channels, duration_s, dt>>

CacheKeyOf(call) ==
    BaselineCacheKey(call.patient_id, call.seed, Len(call.stim),
                     LossConfig.duration_s, LossConfig.dt)

\* line 506: patient_id and _baseline_cache_enabled()
CacheUsed(call) == call.patient_id # "" /\ call.cache_enabled

\* json.dumps / float(json.loads) of one value: decimal digits and back
FormatFloat(v) == <<v \div 100, (v \div 10) % 10, v % 10>>
ParseFloat(d) == d[1] * 100 + d[2] * 10 + d[3]

\* dict.get and item assignment
EmptyDict == [k \in {} |-> 0]
DictGet(d, k) == IF k \in DOMAIN d THEN d[k] ELSE None
DictPut(d, k, v) == [x \in (DOMAIN d) \cup {k} |-> IF x = k THEN v ELSE d[x]]

NoFile == [exists |-> FALSE, text |-> EmptyDict, empty |-> TRUE]

\* the file after json.dumps(cache) was written out
FileWith(cache) ==
    [exists |-> TRUE, empty |-> FALSE,
     text |-> [k \in DOMAIN cache |-> FormatFloat(cache[k])]]

\* the file just after write_text opened it for writing
TruncatedFile == [exists |-> TRUE, text |-> EmptyDict, empty |-> TRUE]

\* _load_baseline_cache: {} for a missing or unparsable file
LoadBaselineCache(file) ==
    IF ~file.exists THEN EmptyDict
    ELSE IF file.empty THEN EmptyDict
    ELSE [k \in DOMAIN file.text |-> ParseFloat(file.text[k])]

\* calls with a patient id and the cache on, one without patient id and
\* one with the cache switched off
Calls(seed) ==
    { [patient_id |-> p, cache_enabled |-> TRUE, seed |-> seed, stim |-> s] :
        p \in {"A", "B"}, s \in StimChoices }
    \cup { [patient_id |-> "", cache_enabled |-> TRUE, seed |-> seed,
            stim |-> <<Channel(2, 2, 1, 0)>>],
           [patient_id |-> "A", cache_enabled |-> FALSE, seed |-> seed,
            stim |-> <<Channel(2, 2, 1, 0)>>] }

\* an entry an earlier run left in the cache file
EarlierEntry(seed) ==
    LET call == [patient_id |-> "B", cache_enabled |-> TRUE, seed |-> seed,
                 stim |-> CHOOSE s \in StimChoices : TRUE]
    IN  DictPut(EmptyDict, CacheKeyOf(call), BaselineRms(call))

NoCall == [patient_id |-> "", cache_enabled |-> FALSE, seed |-> 0, stim |-> <<>>]

InitCache ==
    /\ cfg_seed \in Seeds
    /\ \E earlier \in BOOLEAN :
         /\ cache_init = (IF earlier THEN EarlierEntry(cfg_seed) ELSE EmptyDict)
         /\ cache_file = (IF earlier THEN FileWith(EarlierEntry(cfg_seed)) ELSE NoFile)
    /\ wpc = [w \in Workers |-> "idle"]
    /\ wcall = [w \in Workers |-> NoCall]
    /\ wcached = [w \in Workers |-> EmptyDict]
    /\ wbase = [w \in Workers |-> None]
    /\ wran = [w \in Workers |-> FALSE]
    /\ wafter = [w \in Workers |-> FALSE]
    /\ wresult = [w \in Workers |-> Rat(0, 1)]
    /\ stored = {}
    /\ calls_begun = 0

\* calculate_loss is entered (lines 462-504): nothing read yet
BeginCall(w) ==
    /\ wpc[w] \in {"idle", "done"}
    /\ calls_begun < MaxCalls
    /\ \E call \in Calls(cfg_seed) :
         /\ wcall' = [wcall EXCEPT ![w] = call]
         /\ wafter' = [wafter EXCEPT ![w] = CacheUsed(call) /\ CacheKeyOf(call) \in stored]
    /\ wpc' = [wpc EXCEPT ![w] = "lookup"]
    /\ wcached' = [wcached EXCEPT ![w] = EmptyDict]
    /\ wbase' = [wbase EXCEPT ![w] = None]
    /\ wran' = [wran EXCEPT ![w] = FALSE]
    /\ calls_begun' = calls_begun + 1
    /\ UNCHANGED <<cfg_seed, cache_init, cache_file, wresult, stored>>
    /\ UNCHANGED otherThanCache

\* lines 506-516: read the cache file and look the key up
Lookup(w) ==
    /\ wpc[w] = "lookup"
    /\ LET found == IF CacheUsed(wcall[w])
                    THEN DictGet(LoadBaselineCache(cache_file), CacheKeyOf(wcall[w]))
                    ELSE None
       IN  /\ wbase' = [wbase EXCEPT ![w] = found]
           /\ wpc' = [wpc EXCEPT ![w] = IF found = None THEN "baseline" ELSE "stim"]
    /\ UNCHANGED <<cfg_seed, cache_init, cache_file, wcall, wcached, wran, wafter,
                   wresult, stored, calls_begun>>
    /\ UNCHANGED otherThanCache

\* lines 518-526: no cached value, run the zero-amplitude simulation
Baseline(w) ==
    /\ wpc[w] = "baseline"
    /\ wbase' = [wbase EXCEPT ![w] = BaselineRms(wcall[w])]
    /\ wran' = [wran EXCEPT ![w] = TRUE]
    /\ wpc' = [wpc EXCEPT ![w] = IF CacheUsed(wcall[w]) THEN "reload" ELSE "stim"]
    /\ UNCHANGED <<cfg_seed, cache_init, cache_file, wcall, wcached, wafter,
                   wresult, stored, calls_begun>>
    /\ UNCHANGED otherThanCache

\* lines 528-529: read the cache file again and set the entry in the copy
Reload(w) ==
    /\ wpc[w] = "reload"
    /\ wcached' = [wcached EXCEPT ![w] =
                      DictPut(LoadBaselineCache(cache_file), CacheKeyOf(wcall[w]), wbase[w])]
    /\ wpc' = [wpc EXCEPT ![w] = "save"]
    /\ UNCHANGED <<cfg_seed, cache_init, cache_file, wcall, wbase, wran, wafter,
                   wresult, stored, calls_begun>>
    /\ UNCHANGED otherThanCache

\* _save_baseline_cache, first half: write_text opens the file, which
\* empties it
SaveOpen(w) ==
    /\ wpc[w] = "save"
    /\ cache_file' = TruncatedFile
    /\ wpc' = [wpc EXCEPT ![w] = "write"]
    /\ UNCHANGED <<cfg_seed, cache_init, wcall, wcached, wbase, wran, wafter,
                   wresult, stored, calls_begun>>
    /\ UNCHANGED otherThanCache

\* _save_baseline_cache, second half: the text reaches the file
SaveWrite(w) ==
    /\ wpc[w] = "write"
    /\ cache_file' = FileWith(wcached[w])
    /\ stored' = stored \cup {CacheKeyOf(wcall[w])}
    /\ wpc' = [wpc EXCEPT ![w] = "stim"]
    /\ UNCHANGED <<cfg_seed, cache_init, wcall, wcached, wbase, wran, wafter,
                   wresult, calls_begun>>
    /\ UNCHANGED otherThanCache

\* lines 532-540: the run with the stimulation, and the severity returned;
\* the call's local values are gone after the return
Stim(w) ==
    /\ wpc[w] = "stim"
    /\ wresult' = [wresult EXCEPT ![w] = AnalyticalSeverity(wbase[w], StimRms(wcall[w]))]
    /\ wpc' = [wpc EXCEPT ![w] = "done"]
    /\ wcached' = [wcached EXCEPT ![w] = EmptyDict]
    /\ wbase' = [wbase EXCEPT ![w] = None]
    /\ UNCHANGED <<cfg_seed, cache_init, cache_file, wcall, wran,
                   wafter, stored, calls_begun>>
    /\ UNCHANGED otherThanCache

NextCache ==
    \E w \in Workers :
        \/ BeginCall(w)
        \/ Lookup(w)
        \/ Baseline(w)
        \/ Reload(w)
        \/ SaveOpen(w)
        \/ SaveWrite(w)
        \/ Stim(w)

-----------------------------------------------------------------------------
(* Properties of the baseline cache *)

AllCallsFinished == \A w \in Workers : wpc[w] \in {"idle", "done"}

\* C8: after overlapping evaluations have all finished, the cache file has
\* an entry for every key any of them stored, and every entry it had before
\* they started.
C8_NoLostCacheUpdate ==
    AllCallsFinished
        => \A k \in stored \cup DOMAIN cache_init :
              k \in DOMAIN LoadBaselineCache(cache_file)

\* C9: a call that starts after its key was stored does not run the
\* baseline simulation again and returns what it would return without the
\* cache.
C9_StoredBaselineReused ==
    \A w \in Workers :
        (wpc[w] = "done" /\ wafter[w])
            => /\ ~wran[w]
               /\ RatEq(wresult[w], UncachedSeverity(wcall[w]))

-----------------------------------------------------------------------------
(* StimParams, StimParams.from_matrix (types.py lines 9-33) and            *)
(* _to_parameter_matrix (loss.py lines 33-39).  An array is modelled by    *)
(* its numpy shape, a tuple of dimensions; the checks look at nothing else. *)

MaxChannels == 2

\* shapes of the arrays a caller passes for amp, freq, pw and phase
ArrayShapes ==
    { <<>> } \cup { <<n>> : n \in 0..MaxChannels } \cup { <<MaxChannels, 3>> }

\* shapes of the arrays a caller passes as a parameter matrix
MatrixShapes ==
    { <<>>, <<4>>, <<3, MaxChannels>>, <<MaxChannels, 4>>, <<4, MaxChannels, 1>> }
    \cup { <<4, n>> : n \in 0..MaxChannels }

NoCallYet == [fn |-> "none", args |-> <<>>]
NotCalled == [ok |-> FALSE, err |-> "", shape |-> <<>>]
RaisedIn(e) == [ok |-> FALSE, err |-> e, shape |-> <<>>]
Accepted(shape) == [ok |-> TRUE, err |-> "", shape |-> shape]

\* StimParams.__post_init__ (lines 16-19): n = amp.shape[0], then the other
\* three arrays must have shape (n,); the object is kept as the 4 shapes
StimParams(amp, freq, pw, phase) ==
    IF Len(amp) = 0 THEN RaisedIn("IndexError")
    ELSE LET n == amp[1]
         IN  IF \E arr \in {freq, pw, phase} : arr # <<n>>
             THEN RaisedIn("ValueError")
             ELSE Accepted(<<amp, freq, pw, phase>>)

\* arr[i] for an array of the given shape with at least one dimension
RowShape(shape) == Tail(shape)

\* StimParams.from_matrix (lines 28-33)
from_matrix(params) ==
    IF Len(params) # 2 \/ params[1] # 4 THEN RaisedIn("ValueError")
    ELSE StimParams(RowShape(params), RowShape(params), RowShape(params),
                    RowShape(params))

\* _to_parameter_matrix (loss.py lines 33-39)
to_parameter_matrix(parameters) ==
    IF Len(parameters) # 2 \/ parameters[1] # 4 THEN RaisedIn("ValueError")
    ELSE IF parameters[2] = 0 THEN RaisedIn("ValueError")
    ELSE Accepted(parameters)

\* calculate_loss lines 469 and 493 / 543: the matrix check, then from_matrix
calculate_loss_stim(parameters) ==
    LET param_matrix == to_parameter_matrix(parameters)
    IN  IF param_matrix.ok THEN from_matrix(param_matrix.shape) ELSE param_matrix

InitTypes ==
    /\ stim_call = NoCallYet
    /\ stim_ret = NotCalled

\* The checks keep no state, so a call has no effect on a later one: each
\* behaviour makes one call.

\* StimParams(amp = ..., freq = ..., pw = ..., phase = ...)
ConstructStimParams ==
    /\ stim_call = NoCallYet
    /\ \E amp \in ArrayShapes, freq \in ArrayShapes, pw \in ArrayShapes,
          phase \in ArrayShapes :
         /\ stim_call' = [fn |-> "StimParams", args |-> <<amp, freq, pw, phase>>]
         /\ stim_ret' = StimParams(amp, freq, pw, phase)
    /\ UNCHANGED otherThanTypes

\* StimParams.from_matrix(params)
FromMatrix ==
    /\ stim_call = NoCallYet
    /\ \E params \in MatrixShapes :
         /\ stim_call' = [fn |-> "from_matrix", args |-> <<params>>]
         /\ stim_ret' = from_matrix(params)
    /\ UNCHANGED otherThanTypes

\* calculate_loss(parameters) up to the construction of stim
CalculateLossStim ==
    /\ stim_call = NoCallYet
    /\ \E parameters \in MatrixShapes :
         /\ stim_call' = [fn |-> "calculate_loss", args |-> <<parameters>>]
         /\ stim_ret' = calculate_loss_stim(parameters)
    /\ UNCHANGED otherThanTypes

NextTypes ==
    \/ ConstructStimParams
    \/ FromMatrix
    \/ CalculateLossStim

-----------------------------------------------------------------------------
(* Properties of the shape checks *)

\* four sequences of one common length N >= 1
WellShapedArrays(args) ==
    \E n \in 1..(MaxChannels + 1) : \A k \in 1..4 : args[k] = <<n>>

\* a 4 x N matrix, N >= 1
WellShapedMatrix(shape) == Len(shape) = 2 /\ shape[1] = 4 /\ shape[2] >= 1

\* C12: parameters whose four sequences do not all have one length N >= 1,
\* or a matrix that is not 4 x N, are rejected with a shape error
\* (ValueError) by StimParams, StimParams.from_matrix and calculate_loss.
C12_BadShapesRejected ==
    /\ (stim_call.fn = "StimParams" /\ ~WellShapedArrays(stim_call.args))
          => (~stim_ret.ok /\ stim_ret.err = "ValueError")
    /\ (stim_call.fn \in {"from_matrix", "calculate_loss"}
        /\ ~WellShapedMatrix(stim_call.args[1]))
          => (~stim_ret.ok /\ stim_ret.err = "ValueError")

-----------------------------------------------------------------------------
(* Bayes.model: the search bounds (lines 345-374) with per-base bounds     *)
(* from the configuration, and the bounds map returned (line 431).         *)

MaxObs == 3

\* parameter rows of the observations (units: see the header); a column can
\* hold values at zero and below it
ObsRows ==
    { <<a, f, 30, ph>> : a \in {0 - 30, 0, 30}, f \in {0, 30}, ph \in {0 - 30, 30} }

ObsChoices == UNION { [1..n -> ObsRows] : n \in 1..MaxObs }

\* cfg is None, or c.get("bounds", None) is None
NoCfgBounds == [b \in {} |-> <<0, 0>>]

\* c.get("bounds"): base -> [low, high]
CfgBoundsChoices ==
    { NoCfgBounds,
      [b \in {"amp"} |-> <<0, 60>>],
      [b \in {"amp"} |-> <<0 - 30, 60>>],
      [b \in {"freq_hz", "phase_rad"} |->
          IF b = "freq_hz" THEN <<30, 90>> ELSE <<0 - 30, 30>>] }

\* lines 356-374 for column j
ParamLow(M, j, cfgb) ==
    IF BaseOf(j) \in DOMAIN cfgb THEN cfgb[BaseOf(j)][1] ELSE InferLow(M, j)

ParamHigh(M, j, cfgb) ==
    IF BaseOf(j) \in DOMAIN cfgb THEN cfgb[BaseOf(j)][2] ELSE InferHigh(M, j)

\* line 431: {name: (low, high)}, the names in column order
BoundsMap(M, cfgb) ==
    [j \in ColIdx |-> <<ParamLow(M, j, cfgb), ParamHigh(M, j, cfgb)>>]

InitBounds ==
    /\ obs = <<>>
    /\ cfg_bounds = NoCfgBounds
    /\ bounds = <<>>

\* one call of Bayes.model that reaches the candidate search
InferBounds ==
    /\ bounds = <<>>
    /\ \E M \in ObsChoices, cfgb \in CfgBoundsChoices :
         /\ obs' = M
         /\ cfg_bounds' = cfgb
         /\ bounds' = BoundsMap(M, cfgb)
    /\ UNCHANGED otherThanBounds

NextBounds == InferBounds

-----------------------------------------------------------------------------
(* Properties of the search bounds *)

FlooredBases == {"amp", "freq_hz", "pulse_width_s"}

\* C14: in every bounds map returned, the lower bound of every amp,
\* freq_hz and pulse_width_s dimension is >= 0, whether it was inferred from
\* the observations or taken from the configuration.
C14_LowerBoundsNonNegative ==
    bounds # <<>>
        => \A j \in ColIdx : BaseOf(j) \in FlooredBases => bounds[j][1] >= 0

\* C15: a dimension without a configured bound whose observed values all
\* equal one value v gets the interval from v - span (floored at 0 for amp,
\* freq_hz, pulse_width_s) to v + span, which is non-empty and contains v.
C15_DegenerateSpanContainsValue ==
    bounds # <<>>
        => \A j \in ColIdx :
             (BaseOf(j) \notin DOMAIN cfg_bounds /\ ColMin(obs, j) = ColMax(obs, j))
                => LET v == ColMin(obs, j)
                       span == min_span_by_base[BaseOf(j)]
                   IN  /\ bounds[j][1] = FloorAtZero(BaseOf(j), v - span)
                       /\ bounds[j][2] = v + span
                       /\ bounds[j][1] < bounds[j][2]
                       /\ bounds[j][1] <= v
                       /\ v <= bounds[j][2]

-----------------------------------------------------------------------------
(* sample_patient_params (sampling.py lines 12-54) with the transforms of  *)
(* transforms.py and PatientParams (types.py lines 53-57).  Quantities are  *)
(* integers in units of 1e-6; a draw of the generator is any value of the   *)
(* distribution's support.                                                 *)

MaxPatients == 2

\* clamp limits and minimums of lines 31-44, in units of 1e-6
NaturalFreqLo == 2500000
NaturalFreqHi == 9000000
DampingLo == 50000
DampingHi == 3000000
PeripheryFreqLo == 2000000
PeripheryFreqHi == 8000000
CouplingMin == 100000
GainMin == 200000
NoiseStdMin == 1000
BiasStdMin == 500
DriftMin == 10

Unclamped(x, lo, hi) == x

\* transforms.py
positive(x, minimum) == Max(x, minimum)
clamp(x, lo, hi) == Min(Max(x, lo), hi)
stable_damping(x) == clamp(x, DampingLo, DampingHi)

\* where a draw lies relative to the interval [lo, hi] it is clamped to
Levels == {"below", "low", "inside", "high", "above"}

\* rng.normal: any real, also a negative one
NormalDraw(level, lo, hi) ==
    CASE level = "below" -> 0 - hi
      [] level = "low" -> lo
      [] level = "inside" -> lo + 1
      [] level = "high" -> hi
      [] OTHER -> hi + 1

\* rng.lognormal: any positive real
LognormalDraw(level, lo, hi) ==
    CASE level = "below" -> lo - 1
      [] level = "low" -> lo
      [] level = "inside" -> lo + 1
      [] level = "high" -> hi
      [] OTHER -> hi + 1

\* the draws of one loop iteration, in the order of lines 31-44
DrawsAt(nl, ll) ==
    [natural_freq_hz |-> NormalDraw(nl, NaturalFreqLo, NaturalFreqHi),
     brain_damping |-> LognormalDraw(ll, DampingLo, DampingHi),
     coupling |-> NormalDraw(nl, CouplingMin, 2 * CouplingMin),
     freq_hz |-> NormalDraw(nl, PeripheryFreqLo, PeripheryFreqHi),
     periphery_damping |-> LognormalDraw(ll, DampingLo, DampingHi),
     gain |-> NormalDraw(nl, GainMin, 2 * GainMin),
     mix |-> <<NormalDraw(nl, 0, 1), NormalDraw(nl, 0, 1), NormalDraw(nl, 0, 1)>>,
     noise_std |-> LognormalDraw(ll, NoiseStdMin, 2 * NoiseStdMin),
     bias_std |-> LognormalDraw(ll, BiasStdMin, 2 * BiasStdMin),
     drift_per_s |-> LognormalDraw(ll, DriftMin, 2 * DriftMin)]

DrawChoices == { DrawsAt(nl, ll) : nl \in Levels, ll \in Levels }

\* lines 30-45: the three dicts of one patient
PatientDicts(d) ==
    [brain |-> [natural_freq_hz |-> clamp(d.natural_freq_hz, NaturalFreqLo, NaturalFreqHi),
                damping |-> stable_damping(d.brain_damping),
                coupling |-> positive(d.coupling, CouplingMin)],
     periphery |-> [freq_hz |-> clamp(d.freq_hz, PeripheryFreqLo, PeripheryFreqHi),
                    damping |-> stable_damping(d.periphery_damping),
                    gain |-> positive(d.gain, GainMin),
                    mix |-> d.mix],
     sensor |-> [noise_std |-> positive(d.noise_std, NoiseStdMin),
                 bias_std |-> positive(d.bias_std, BiasStdMin),
                 drift_per_s |-> positive(d.drift_per_s, DriftMin)]]

\* the fields of the dataclass PatientParams (types.py lines 53-57)
PatientParamsFields == {"brain", "periphery", "sensor"}

\* PatientParams(**kwargs): the generated __init__ takes its fields only
PatientParams(kwargs) ==
    IF DOMAIN kwargs \subseteq PatientParamsFields
    THEN [ok |-> TRUE, err |-> "", obj |-> kwargs]
    ELSE [ok |-> FALSE, err |-> "TypeError", obj |-> <<>>]

\* lines 46-53: the construction of one patient
SampledPatient(d, treatment_goals) ==
    PatientParams([brain |-> PatientDicts(d).brain,
                   periphery |-> PatientDicts(d).periphery,
                   sensor |-> PatientDicts(d).sensor,
                   treatment_goals |-> treatment_goals])

\* treatment goals a caller attaches (weights in hundredths); NoGoals is None
TreatmentGoalChoices ==
    { NoGoals, [w_diag |-> 70, w_nms |-> 20, w_dur |-> 10] }

\* sample_patient_params(rng, n, treatment_goals) for the draws the generator
\* gives: the loop stops at the first construction that raises
sample_patient_params(draws, n, treatment_goals) ==
    LET failing == { i \in 1..n : ~SampledPatient(draws[i], treatment_goals).ok }
        first == CHOOSE i \in failing : \A k \in failing : i <= k
    IN  IF failing = {}
        THEN [ret |-> [ok |-> TRUE, err |-> "",
                       patients |-> [i \in 1..n |->
                           SampledPatient(draws[i], treatment_goals).obj]],
              locals |-> [i \in 1..n |-> PatientDicts(draws[i])]]
        ELSE [ret |-> [ok |-> FALSE, err |-> "TypeError", patients |-> <<>>],
              locals |-> [i \in 1..first |-> PatientDicts(draws[i])]]

NoSample == [n |-> 0, treatment_goals |-> NoGoals, draws |-> <<>>]
NoReturn == [ok |-> FALSE, err |-> "", patients |-> <<>>]
NoPatient == [ok |-> FALSE, err |-> "", obj |-> <<>>]

InitCohort ==
    /\ sample_in = NoSample
    /\ sample_locals = <<>>
    /\ sample_ret = NoReturn
    /\ patient_ret = NoPatient

\* no call made yet: each behaviour makes one call
CohortIdle == sample_in = NoSample /\ patient_ret = NoPatient

\* one call sample_patient_params(rng, n, treatment_goals = g)
SamplePatients ==
    /\ CohortIdle
    /\ \E n \in 0..MaxPatients, g \in TreatmentGoalChoices :
         \E draws \in [1..n -> DrawChoices] :
            LET r == sample_patient_params(draws, n, g)
            IN  /\ sample_in' = [n |-> n, treatment_goals |-> g, draws |-> draws]
                /\ sample_locals' = r.locals
                /\ sample_ret' = r.ret
    /\ UNCHANGED patient_ret
    /\ UNCHANGED otherThanCohort

\* PatientParams(brain = ..., periphery = ..., sensor = ...) as the code
\* outside the cohort module builds it (factory defaults, tests)
ConstructPatient ==
    /\ CohortIdle
    /\ \E d \in DrawChoices :
         patient_ret' = PatientParams([brain |-> PatientDicts(d).brain,
                                       periphery |-> PatientDicts(d).periphery,
                                       sensor |-> PatientDicts(d).sensor])
    /\ UNCHANGED <<sample_in, sample_locals, sample_ret>>
    /\ UNCHANGED otherThanCohort

\* PatientParams(..., treatment_goals = g) (loss.py lines 480-487, the test)
ConstructPatientWithGoals ==
    /\ CohortIdle
    /\ \E d \in DrawChoices, g \in TreatmentGoalChoices \ {NoGoals} :
         patient_ret' = SampledPatient(d, g)
    /\ UNCHANGED <<sample_in, sample_locals, sample_ret>>
    /\ UNCHANGED otherThanCohort

NextCohort ==
    \/ SamplePatients
    \/ ConstructPatient
    \/ ConstructPatientWithGoals

-----------------------------------------------------------------------------
(* Properties of the cohort sampling *)

\* the ranges of one patient's dicts
StableDicts(p) ==
    /\ NaturalFreqLo <= p.brain.natural_freq_hz
    /\ p.brain.natural_freq_hz <= NaturalFreqHi
    /\ DampingLo <= p.brain.damping /\ p.brain.damping <= DampingHi
    /\ DampingLo <= p.periphery.damping /\ p.periphery.damping <= DampingHi
    /\ PeripheryFreqLo <= p.periphery.freq_hz
    /\ p.periphery.freq_hz <= PeripheryFreqHi
    /\ p.brain.coupling >= CouplingMin
    /\ p.periphery.gain >= GainMin
    /\ p.sensor.noise_std >= NoiseStdMin
    /\ p.sensor.bias_std >= BiasStdMin
    /\ p.sensor.drift_per_s >= DriftMin

\* C16: whatever the generator draws, the dicts sample_patient_params builds
\* for a patient, and so every patient it returns, have natural_freq_hz in
\* [2.5, 9.0], both dampings in [0.05, 3.0], periphery freq_hz in [2.0, 8.0],
\* coupling >= 0.1, gain >= 0.2, noise_std >= 0.001, bias_std >= 0.0005 and
\* drift_per_s >= 1e-5.
C16_SampledPatientsStable ==
    /\ \A i \in DOMAIN sample_locals : StableDicts(sample_locals[i])
    /\ \A i \in DOMAIN sample_ret.patients : StableDicts(sample_ret.patients[i])

\* dicts were built from draws outside the clamp intervals on both sides
C16_Witness ==
    /\ Len(sample_locals) >= 1
    /\ sample_in.draws[1].natural_freq_hz < 0
    /\ sample_in.draws[1].brain_damping > DampingHi
    /\ sample_locals[1].brain.natural_freq_hz = NaturalFreqLo
    /\ sample_locals[1].brain.damping = DampingHi

\* C17: sample_patient_params(rng, n, treatment_goals = g) returns n
\* patients that each carry g as treatment_goals (None when no goals are
\* passed), and PatientParams(..., treatment_goals = g) gives an object from
\* which g can be read.
C17_GoalsAttached ==
    /\ sample_in # NoSample
          => /\ sample_ret.ok
             /\ Len(sample_ret.patients) = sample_in.n
             /\ \A i \in DOMAIN sample_ret.patients :
                   /\ "treatment_goals" \in DOMAIN sample_ret.patients[i]
                   /\ sample_ret.patients[i].treatment_goals
                         = sample_in.treatment_goals
    /\ patient_ret.err = ""

-----------------------------------------------------------------------------
(* square_pulse_train (waveforms.py lines 10-55) called on its own, with   *)
(* the degenerate arguments the encoder can hand it.                       *)

MaxGrid == 4

\* time grids, in steps of dt: empty, one sample, several samples; a grid
\* may start before time 0
TimeGrids ==
    { [i \in 1..n |-> t0 + (i - 1)] : n \in 0..MaxGrid, t0 \in {0 - 2, 0, 3} }

\* amplitudes, frequencies (Hz), pulse widths (half steps) and phases
\* (quarter turns) of a call
WaveAmps == {0 - 1, 1, 2}
WaveFreqs == {0 - 1, 0, 1, 2, 4}
WaveWidths == {0 - 1, 0, 1, 2, 4, 8, 9}
WavePhases == {0 - 3, 0, 1, 5}

NoWave == [t |-> <<>>, ch |-> Channel(0, 0, 0, 0)]

InitWave ==
    /\ wave_in = NoWave
    /\ wave_out = <<>>

\* square_pulse_train(t, amp, freq_hz, pulse_width_s, phase)
ApplySquarePulseTrain ==
    /\ wave_in = NoWave
    /\ \E t \in TimeGrids, amp \in WaveAmps, freq_hz \in WaveFreqs,
          pulse_width_s \in WaveWidths, phase \in WavePhases :
         /\ wave_in' = [t |-> t, ch |-> Channel(amp, freq_hz, pulse_width_s, phase)]
         /\ wave_out' = SquarePulseTrain(t, Channel(amp, freq_hz, pulse_width_s, phase))
    /\ UNCHANGED otherThanWave

NextWave == ApplySquarePulseTrain

-----------------------------------------------------------------------------
(* Properties of square_pulse_train *)

-----------------------------------------------------------------------------
(* Reading the persisted history table: Bayes.model lines 181-184 and      *)
(* 207-252, run_bayes_iterations.py lines 40-60, 147/158 and 195/206.  A    *)
(* file is a sequence of lines of cells; a cell of a data line stands for  *)
(* its number, a cell of a header line carries the column name.            *)

MaxTableRows == 3

severity_col == "severity"

\* the positional names of lines 217-227 / _canonical_param_columns
ParamNames ==
    <<"amp_0", "freq_hz_0", "pulse_width_s_0", "phase_rad_0",
      "amp_1", "freq_hz_1", "pulse_width_s_1", "phase_rad_1">>

\* column counts of the files: 4n, 4n + 1 and one that is neither
ColumnCounts == {4, 5, 6, 8, 9}

Readers == {"model_storage", "model_local", "runner_storage", "runner_local"}

\* files: delimiter, with or without a header line, data lines, columns
TableFiles ==
    [sep : {",", ";"}, header : BOOLEAN, nrows : 1..MaxTableRows,
     ncols : ColumnCounts]

DataCell(r, c) == [row |-> r, col |-> c, name |-> "data"]

\* the header a writer of the table puts: df.to_csv(index = False)
HeaderLine(ncols) ==
    [c \in 1..ncols |->
        [row |-> 0, col |-> c,
         name |-> IF ncols % 4 = 1 /\ c = ncols THEN severity_col
                  ELSE ParamNames[c]]]

FileLines(f) ==
    (IF f.header THEN << HeaderLine(f.ncols) >> ELSE << >>)
    \o [r \in 1..f.nrows |-> [c \in 1..f.ncols |-> DataCell(r, c)]]

\* a line split at sep: its cells, or the whole line as one cell
SplitLine(line, sep, f) ==
    IF sep = f.sep THEN line ELSE << DataCell(line[1].row, 0) >>

IntLabel(k) == [integral |-> TRUE, pos |-> k, name |-> ""]
NameLabel(k, name) == [integral |-> FALSE, pos |-> k, name |-> name]

\* pd.read_csv(content, sep = sep) with the default header = "infer" (the
\* first line names the columns), or with header = None (integer columns)
read_csv(f, sep, header_none) ==
    LET lines == [i \in 1..Len(FileLines(f)) |-> SplitLine(FileLines(f)[i], sep, f)]
        width == Len(lines[1])
    IN  IF header_none
        THEN [columns |-> [c \in 1..width |-> IntLabel(c - 1)], rows |-> lines]
        ELSE [columns |-> [c \in 1..width |-> NameLabel(c - 1, lines[1][c].name)],
              rows |-> Tail(lines)]

\* df.empty
EmptyFrame(d) == Len(d.rows) = 0 \/ Len(d.columns) = 0

\* Bayes.py lines 181-184 and run_bayes_iterations.py lines 41-43
ReadStorageCsv(f) ==
    LET d == read_csv(f, ",", FALSE)
    IN  IF EmptyFrame(d) THEN read_csv(f, ";", TRUE) ELSE d

\* all(isinstance(c, Integral) for c in df.columns)
AllIntegral(d) == \A c \in DOMAIN d.columns : d.columns[c].integral

ColumnNames(d) == { d.columns[c].name : c \in { k \in DOMAIN d.columns : ~d.columns[k].integral } }

\* lines 213-232 (Bayes.py) and 45-55 (runner): positional renaming.  Gives
\* the frame and param_columns (given = FALSE stands for None)
RenameHeaderless(d) ==
    LET ncol == Len(d.columns)
        has_severity_tail == ncol % 4 = 1
        n_param_cols == IF has_severity_tail THEN ncol - 1 ELSE ncol
    IN  IF AllIntegral(d) /\ n_param_cols % 4 = 0
        THEN [df |-> [d EXCEPT !.columns =
                        [c \in 1..ncol |->
                            IF c <= n_param_cols THEN NameLabel(c - 1, ParamNames[c])
                            ELSE NameLabel(c - 1, severity_col)]],
              given |-> TRUE,
              param_columns |-> [c \in 1..n_param_cols |-> ParamNames[c]]]
        ELSE [df |-> d, given |-> FALSE, param_columns |-> << >>]

\* _detect_param_columns: the columns amp_i .. phase_rad_i for i up to the
\* largest index found among the column names
DetectParamColumns(d) ==
    LET found == { k \in DOMAIN ParamNames : ParamNames[k] \in ColumnNames(d) }
        max_k == CHOOSE k \in found : \A j \in found : j <= k
    IN  IF found = {} THEN << >>
        ELSE [c \in 1..(4 * ((max_k + 3) \div 4)) |-> ParamNames[c]]

\* lines 238-245: all columns but the severity column
ColsCandidate(d) ==
    SelectSeq([c \in DOMAIN d.columns |-> d.columns[c].name],
              LAMBDA n : n # severity_col)

Frame(ok, err, d, param_columns, fallback) ==
    [ok |-> ok, err |-> err, columns |-> d.columns, rows |-> d.rows,
     param_columns |-> param_columns, fallback |-> fallback]

NoFrame == [columns |-> << >>, rows |-> << >>]

\* Bayes.model lines 208-252 for the frame read
ModelFrame(d0) ==
    IF EmptyFrame(d0) THEN Frame(FALSE, "ValueError", NoFrame, << >>, FALSE)
    ELSE LET r == RenameHeaderless(d0)
             d == r.df
             detected == DetectParamColumns(d)
             param_columns ==
                 IF r.given THEN r.param_columns
                 ELSE IF detected # << >> THEN detected
                 ELSE ColsCandidate(d)
             rejected ==
                 \/ ~r.given /\ detected = << >>
                    /\ ~(Len(ColsCandidate(d)) % 4 = 0 /\ Len(ColsCandidate(d)) > 0)
                 \/ param_columns = << >>
         IN  IF rejected THEN Frame(FALSE, "ValueError", NoFrame, << >>, FALSE)
             ELSE Frame(TRUE, "", d, param_columns,
                        severity_col \notin ColumnNames(d))

\* _normalize_csv_bytes lines 45-60: renaming, then a severity column of 0.0
\* when there is none
RunnerFrame(d0) ==
    LET d == RenameHeaderless(d0).df
        with_severity ==
            IF severity_col \in ColumnNames(d) THEN d
            ELSE [columns |-> Append(d.columns, NameLabel(Len(d.columns), severity_col)),
                  rows |-> [r \in DOMAIN d.rows |-> Append(d.rows[r], DataCell(0, 0))]]
    IN  Frame(TRUE, "", with_severity, << >>, FALSE)

\* the frame each reader works on
ReadTable(f, reader) ==
    CASE reader = "model_storage" -> ModelFrame(ReadStorageCsv(f))
      [] reader = "model_local" -> ModelFrame(read_csv(f, ",", FALSE))
      [] reader = "runner_storage" -> RunnerFrame(ReadStorageCsv(f))
      [] OTHER -> Frame(TRUE, "", read_csv(f, ",", FALSE), << >>, FALSE)

NoTable == [file |-> [sep |-> ",", header |-> TRUE, nrows |-> 0, ncols |-> 0],
            reader |-> "none"]

InitTable ==
    /\ table_in = NoTable
    /\ table_df = Frame(FALSE, "", NoFrame, << >>, FALSE)

\* Bayes.model loading its history from the bucket or from data_path
ModelReadsTable ==
    /\ table_in = NoTable
    /\ \E f \in TableFiles, reader \in {"model_storage", "model_local"} :
         /\ table_in' = [file |-> f, reader |-> reader]
         /\ table_df' = ReadTable(f, reader)
    /\ UNCHANGED otherThanTable

\* run() loading current_df from the bucket or from local_csv
RunnerReadsTable ==
    /\ table_in = NoTable
    /\ \E f \in TableFiles, reader \in {"runner_storage", "runner_local"} :
         /\ table_in' = [file |-> f, reader |-> reader]
         /\ table_df' = ReadTable(f, reader)
    /\ UNCHANGED otherThanTable

NextTable ==
    \/ ModelReadsTable
    \/ RunnerReadsTable

-----------------------------------------------------------------------------
(* Properties of the table reader *)

\* the names a headerless table of ncols columns should get
PositionalNames(ncols) ==
    [c \in 1..ncols |->
        IF ncols % 4 = 1 /\ c = ncols THEN severity_col ELSE ParamNames[c]]

\* C20: a table without a header row, of C = 4n or 4n + 1 columns, is
\* accepted by the optimizer and by the runner: its columns are named
\* positionally, the last one is the severity exactly when C = 4n + 1, and
\* every line of the file, the first included, is a data row.
C20_HeaderlessTableAccepted ==
    (table_in.reader # "none" /\ ~table_in.file.header
     /\ table_in.file.ncols % 4 \in {0, 1})
        => /\ table_df.ok
           /\ Len(table_df.columns) >= table_in.file.ncols
           /\ \A c \in 1..table_in.file.ncols :
                 table_df.columns[c].name = PositionalNames(table_in.file.ncols)[c]
           /\ Len(table_df.rows) = table_in.file.nrows
           /\ \A r \in 1..table_in.file.nrows : \A c \in 1..table_in.file.ncols :
                 table_df.rows[r][c] = DataCell(r, c)

-----------------------------------------------------------------------------
(* _expected_improvement (Bayes.py lines 89-102)                           *)
(*                                                                         *)
(* mu, sigma and y_best are integers in one unit; sigma is 0, 1, 2 or 4    *)
(* units, so that z = (y_best - mu) / sigma is a multiple of 1/4.  A float *)
(* is a record: kind "fin" with its value, or "nan", "pinf", "ninf".       *)
(* norm.cdf and norm.pdf are tabulated for z = -5, -4.75, .., 5 in units   *)
(* of 1 / ProbScale, rounded to the nearest unit.                          *)

MaxEiLen == 2

ProbScale == 10000 * 10000

Fin(v) == [kind |-> "fin", v |-> v]
NaN == [kind |-> "nan", v |-> 0]
PInf == [kind |-> "pinf", v |-> 0]
NInf == [kind |-> "ninf", v |-> 0]

\* scipy.stats.norm.cdf at z = q / 4, q = -20 .. 20
NormCdfTable ==
    << 29, 102, 340, 1069, 3167, 8842,
       23263, 57703, 134990, 297976, 620967, 1222447,
       2275013, 4005916, 6680720, 10564977, 15865525, 22662735,
       30853754, 40129367, 50000000, 59870633, 69146246, 77337265,
       84134475, 89435023, 93319280, 95994084, 97724987, 98777553,
       99379033, 99702024, 99865010, 99942297, 99976737, 99991158,
       99996833, 99998931, 99999660, 99999898, 99999971 >>

\* scipy.stats.norm.pdf at z = q / 4, q = -20 .. 20
NormPdfTable ==
    << 149, 503, 1598, 4772, 13383, 35260,
       87268, 202905, 443185, 909356, 1752830, 3173965,
       5399097, 8627732, 12951760, 18264909, 24197072, 30113743,
       35206533, 38666812, 39894228, 38666812, 35206533, 30113743,
       24197072, 18264909, 12951760, 8627732, 5399097, 3173965,
       1752830, 909356, 443185, 202905, 87268, 35260,
       13383, 4772, 1598, 503, 149 >>

\* line 99: (y_best - mu) / sigma with numpy's division by zero; a finite
\* quotient is kept in quarters
Divide(a, sigma) ==
    IF sigma # 0 THEN Fin((4 * a) \div sigma)
    ELSE IF a > 0 THEN PInf
    ELSE IF a < 0 THEN NInf
    ELSE NaN

norm_cdf(z) ==
    CASE z.kind = "fin" -> Fin(NormCdfTable[z.v + 21])
      [] z.kind = "pinf" -> Fin(ProbScale)
      [] z.kind = "ninf" -> Fin(0)
      [] OTHER -> NaN

norm_pdf(z) ==
    CASE z.kind = "fin" -> Fin(NormPdfTable[z.v + 21])
      [] z.kind = "nan" -> NaN
      [] OTHER -> Fin(0)

\* the product of a finite number and a float, and the sum of two floats
\* (no infinite operand occurs in line 100)
Times(a, x) == IF x.kind = "fin" THEN Fin(a * x.v) ELSE NaN
Plus(x, w) == IF x.kind = "fin" /\ w.kind = "fin" THEN Fin(x.v + w.v) ELSE NaN

KeepDivisionResult(ei, sigma) == ei

\* line 101: ei[sigma == 0.0] = 0.0
ZeroWhereSigmaZero(ei, sigma) ==
    [i \in 1..Len(ei) |-> IF sigma[i] = 0 THEN Fin(0) ELSE ei[i]]

\* _expected_improvement(mu, sigma, y_best), in units of 1 / ProbScale
expected_improvement(mu, sigma, y_best) ==
    LET z == [i \in 1..Len(mu) |-> Divide(y_best - mu[i], sigma[i])]
        ei == [i \in 1..Len(mu) |->
                  Plus(Times(y_best - mu[i], norm_cdf(z[i])),
                       Times(sigma[i], norm_pdf(z[i])))]
    IN  ZeroWhereSigmaZero(ei, sigma)

\* predictions of the surrogate on a pool: means, non-negative standard
\* deviations, and the best observed target
MuChoices == (0 - 3)..3
SigmaChoices == {0, 1, 2, 4}
YBestChoices == (0 - 2)..2

NoEiCall == [mu |-> <<>>, sigma |-> <<>>, y_best |-> 0]

InitEi ==
    /\ ei_in = NoEiCall
    /\ ei_out = <<>>

\* one call of _expected_improvement; the function keeps no state, so each
\* behaviour makes one call
ExpectedImprovement ==
    /\ ei_in = NoEiCall
    /\ \E n \in 1..MaxEiLen :
         \E mu \in [1..n -> MuChoices], sigma \in [1..n -> SigmaChoices],
            y_best \in YBestChoices :
              /\ ei_in' = [mu |-> mu, sigma |-> sigma, y_best |-> y_best]
              /\ ei_out' = expected_improvement(mu, sigma, y_best)
    /\ UNCHANGED otherThanEi

NextEi == ExpectedImprovement

-----------------------------------------------------------------------------
(* Properties of _expected_improvement *)

\* C22: every component of the expected improvement is a number >= 0, and
\* it is exactly 0 where sigma = 0: no result of a division by zero is
\* returned.
C22_ExpectedImprovementNonNegative ==
    \A i \in 1..Len(ei_out) :
        /\ ei_out[i].kind = "fin"
        /\ ei_out[i].v >= 0
        /\ ei_in.sigma[i] = 0 => ei_out[i].v = 0

\* a call with a component whose sigma is 0 and whose mean equals y_best
\* (0 / 0), and a component with sigma > 0 and the mean above y_best
C22_Witness ==
    /\ \E i \in 1..Len(ei_out) :
          ei_in.sigma[i] = 0 /\ ei_in.mu[i] = ei_in.y_best
          /\ ei_out[i] = Fin(0)
    /\ \E i \in 1..Len(ei_out) :
          ei_in.sigma[i] > 0 /\ ei_in.mu[i] > ei_in.y_best
          /\ ei_out[i].v > 0

-----------------------------------------------------------------------------
(* Long rollouts (test_stability.py, BGTCSLite.simulate lines 62-82,       *)
(* SpringMass3D.simulate lines 29-44)                                      *)
(*                                                                         *)
(* One Simulator.run over MaxSteps steps with every sample kept, for the   *)
(* stimulations of the parameter range.                                    *)

MaxSteps == 8

\* RolloutConfig of a long rollout
LongConfig(include_noise) ==
    [dt |-> 1, duration_s |-> MaxSteps, stride |-> 1,
     include_noise |-> include_noise]

\* one-channel stimulations of the parameter range: amplitude 0, 1 or 3,
\* one or two pulses per second, pulse width up to the period, phase 0 or
\* a quarter turn
RangeStims ==
    { <<Channel(amp, freq_hz, pw, phase)>> :
        amp \in {0, 1, 3}, freq_hz \in {1, 2}, pw \in {1, 2, 4}, phase \in {0, 1} }

NoLongRun == [stim |-> <<>>, seed |-> None]

InitStab ==
    /\ stab_in = NoLongRun
    /\ stab_out = <<>>

\* sim.run(stim, patient, cfg, seed = s) as in test_no_exploding_trajectory;
\* each behaviour makes one long run
RunLong ==
    /\ stab_in = NoLongRun
    /\ \E stim \in RangeStims, patient \in Patients, seed \in Seeds,
          include_noise \in BOOLEAN :
         LET cfg == LongConfig(include_noise)
         IN  /\ stab_in' = [stim |-> stim, patient |-> patient,
                            config |-> cfg, seed |-> seed]
             /\ stab_out' = SimulatorRun(stim, patient, cfg,
                                         GeneratorFor(None, seed)).out.pos
    /\ UNCHANGED otherThanStab

NextStab == RunLong

-----------------------------------------------------------------------------
(* Properties of long rollouts *)

\* the bound of test_no_exploding_trajectory
PositionBound == 10000

\* C23: for every stimulation of the parameter range and every patient the
\* largest absolute position of a rollout stays below the fixed bound: the
\* explicit integration does not blow up.
C23_TrajectoryBounded ==
    stab_in # NoLongRun
        => MaxAbsPos([pos |-> stab_out], Len(stab_out)) < PositionBound

-----------------------------------------------------------------------------
(* The closed-loop runner (run_bayes_iterations.py lines 103-228)          *)
(*                                                                         *)
(* The persisted history is a table with a header line: parameter columns  *)
(* and, unless the table holds parameters only, a severity column.  A      *)
(* parameter vector is one number; Bayes.model enters by what it returns   *)
(* for a table (lines 208-209, 248-252, 266-277, 289-290, 330, 438).       *)

MaxIterations == 2
MaxInitRows == 3

\* an empty severity cell (NaN once read)
NA == 0 - 9

ParamVectors == 1..4
SeverityValues == {0, 1}

\* the tables a run can start from: up to MaxInitRows rows of three
\* parameter vectors, evaluated (severity 0) or parameters only
InitialTables ==
    UNION { { [has_severity |-> TRUE, rows |-> r] :
                r \in [1..n -> [p : 1..3, severity : {0}]] }
            \cup
            { [has_severity |-> FALSE, rows |-> r] :
                r \in [1..n -> [p : 1..3, severity : {NA}]] }
          : n \in 0..MaxInitRows }

DistinctParams(rows) == { rows[i].p : i \in 1..Len(rows) }

\* what Bayes.model returns for a table: it raises on an empty table, gives
\* the last row back when there is no severity column or fewer than
\* fallback_min_samples distinct rows, raises in gp.fit when the collapsed X
\* and the uncollapsed y differ in length or y holds NaN, and else proposes
\* a batch
ModelOutcome(table) ==
    LET rows == table.rows
    IN  IF rows = <<>> THEN "raise"
        ELSE IF ~table.has_severity THEN "fallback"
        ELSE IF Cardinality(DistinctParams(rows)) < fallback_min_samples
        THEN "fallback"
        ELSE IF Cardinality(DistinctParams(rows)) # Len(rows) THEN "raise"
        ELSE IF \E i \in 1..Len(rows) : rows[i].severity = NA THEN "raise"
        ELSE "fitted"

\* the batches a call with batch_size k can return for a table: the
\* fallback result has next_params only, which the runner wraps in a list
\* (lines 161 and 209)
ModelBatches(table, k) ==
    IF ModelOutcome(table) = "fallback"
    THEN { << table.rows[Len(table.rows)].p >> }
    ELSE [1..k -> ParamVectors]

\* _normalize_csv_bytes lines 57-58 on a table with header
normalize_csv(table) ==
    IF table.has_severity THEN table
    ELSE [has_severity |-> TRUE,
          rows |-> [i \in 1..Len(table.rows) |->
                        [table.rows[i] EXCEPT !.severity = 0]]]

\* the frame the runner appends to: _download_current_df in bucket mode,
\* pd.read_csv(local_path) in local mode
CurrentDf(table, local) == IF local THEN table ELSE normalize_csv(table)

\* pd.concat([current_df, pd.DataFrame([row])]) with row holding the
\* parameters and the severity
ConcatRow(frame, p, severity) ==
    [has_severity |-> TRUE,
     rows |-> Append(frame.rows, [p |-> p, severity |-> severity])]

RECURSIVE ConcatRows(_, _, _)
ConcatRows(frame, ps, sevs) ==
    IF ps = <<>> THEN frame
    ELSE ConcatRows(ConcatRow(frame, Head(ps), Head(sevs)), Tail(ps), Tail(sevs))

\* batch[:steps_per_iter]
Prefix(batch, n) == [i \in 1..Min(n, Len(batch)) |-> batch[i]]

NoRun == [iterations |-> 0, batch_size |-> 0, local |-> FALSE,
          sequential_reaction |-> FALSE, parallel_batch |-> FALSE]

NoTableYet == [has_severity |-> FALSE, rows |-> <<>>]

InitRunner ==
    /\ run_pc = "idle"
    /\ run_args = NoRun
    /\ run_init = NoTableYet
    /\ run_table = NoTableYet
    /\ run_step = 0
    /\ run_losses = <<>>
    /\ run_evals = {}
    /\ run_fitted = FALSE

\* lines 127-134 of a call run(iterations, batch_size, ...) on a persisted
\* table
steps_per_iter(args) == Max(1, args.batch_size)

\* the loop a run takes (line 136)
ParallelLoop(args) == args.parallel_batch /\ steps_per_iter(args) > 1

\* number of passes of the loop body the run makes
TotalPasses(args) ==
    IF ParallelLoop(args) THEN args.iterations
    ELSE args.iterations * steps_per_iter(args)

StartRun ==
    /\ run_pc = "idle"
    /\ \E table \in InitialTables, iterations \in 1..MaxIterations,
          b \in 0..MaxBatch, local \in BOOLEAN,
          sequential_reaction \in BOOLEAN, parallel_batch \in BOOLEAN :
         /\ run_args' = [iterations |-> iterations, batch_size |-> b,
                         local |-> local,
                         sequential_reaction |-> sequential_reaction,
                         parallel_batch |-> parallel_batch]
         /\ run_init' = table
         /\ run_table' = table
         /\ run_pc' = IF parallel_batch /\ sequential_reaction
                      THEN "raised" ELSE "running"
    /\ UNCHANGED <<run_step, run_losses, run_evals, run_fitted>>
    /\ UNCHANGED otherThanRunner

\* one pass of the sequential loop, lines 186-227
SequentialStep ==
    /\ run_pc = "running"
    /\ ~ParallelLoop(run_args)
    /\ run_step < TotalPasses(run_args)
    /\ ModelOutcome(run_table) # "raise"
    /\ LET k == IF run_args.sequential_reaction THEN 1
                ELSE steps_per_iter(run_args)
           j == run_step % steps_per_iter(run_args)
       IN  \E batch \in ModelBatches(run_table, k), severity \in SeverityValues :
             LET next_params ==
                     IF run_args.sequential_reaction THEN batch[1]
                     ELSE batch[Min(j, Len(batch) - 1) + 1]
                 current_df == CurrentDf(run_table, run_args.local)
             IN  /\ run_losses' = Append(run_losses, severity)
                 /\ run_evals' = run_evals \cup
                        { [p |-> next_params, severity |-> severity] }
                 /\ run_table' = ConcatRow(current_df, next_params, severity)
    /\ run_fitted' = (run_fitted \/ ModelOutcome(run_table) = "fitted")
    /\ run_step' = run_step + 1
    /\ UNCHANGED <<run_pc, run_args, run_init>>
    /\ UNCHANGED otherThanRunner

\* one pass of the parallel loop, lines 139-182
ParallelIteration ==
    /\ run_pc = "running"
    /\ ParallelLoop(run_args)
    /\ run_step < TotalPasses(run_args)
    /\ ModelOutcome(run_table) # "raise"
    /\ \E batch \in ModelBatches(run_table, steps_per_iter(run_args)) :
         LET candidates == Prefix(batch, steps_per_iter(run_args))
         IN  \E scored \in [1..Len(candidates) -> SeverityValues] :
               /\ run_losses' = run_losses \o scored
               /\ run_evals' = run_evals \cup
                      { [p |-> candidates[i], severity |-> scored[i]]
                        : i \in 1..Len(candidates) }
               /\ run_table' = ConcatRows(CurrentDf(run_table, run_args.local),
                                          candidates, scored)
    /\ run_fitted' = (run_fitted \/ ModelOutcome(run_table) = "fitted")
    /\ run_step' = run_step + 1
    /\ UNCHANGED <<run_pc, run_args, run_init>>
    /\ UNCHANGED otherThanRunner

\* Bayes.model raises inside the loop: the run ends with the exception
ModelRaises ==
    /\ run_pc = "running"
    /\ run_step < TotalPasses(run_args)
    /\ ModelOutcome(run_table) = "raise"
    /\ run_pc' = "raised"
    /\ UNCHANGED <<run_args, run_init, run_table, run_step, run_losses,
                   run_evals, run_fitted>>
    /\ UNCHANGED otherThanRunner

\* lines 183 and 228: return losses
ReturnLosses ==
    /\ run_pc = "running"
    /\ run_step = TotalPasses(run_args)
    /\ run_pc' = "done"
    /\ UNCHANGED <<run_args, run_init, run_table, run_step, run_losses,
                   run_evals, run_fitted>>
    /\ UNCHANGED otherThanRunner

NextRunner ==
    \/ StartRun
    \/ SequentialStep
    \/ ParallelIteration
    \/ ModelRaises
    \/ ReturnLosses

-----------------------------------------------------------------------------
(* Properties of the closed-loop runner *)

\* C24: a completed run(iterations = I, batch_size = B) has appended exactly
\* I * max(1, B) rows to the persisted history and returns that many losses,
\* in sequential and in parallel mode, and the rows the history had before
\* are still its first rows.
C24_RunAppendsOneRowPerCandidate ==
    run_pc = "done" =>
        LET total == run_args.iterations * Max(1, run_args.batch_size)
        IN  /\ Len(run_table.rows) = Len(run_init.rows) + total
            /\ Len(run_losses) = total
            /\ \A i \in 1..Len(run_init.rows) :
                  run_table.rows[i].p = run_init.rows[i].p

\* a history with rows, a severity column and fewer than
\* fallback_min_samples distinct parameter rows
SmallHistory(table) ==
    /\ table.rows # <<>>
    /\ table.has_severity
    /\ Cardinality(DistinctParams(table.rows)) < fallback_min_samples

\* C27: a run that starts from a history with fewer than
\* fallback_min_samples distinct parameter rows eventually makes a
\* Bayes.model call that fits a surrogate.
C27_FallbackEventuallyLeft ==
    (run_pc = "running" /\ SmallHistory(run_init)) ~> run_fitted

\* C29: every row the run appended holds the severity calculate_loss
\* returned for the parameters of that row, and every row of the initial
\* table keeps the severity cell it had: a parameters-only row stays
\* without a severity.
C29_StoredSeverityIsEvaluated ==
    run_pc \in {"running", "done"} =>
        /\ Len(run_table.rows) >= Len(run_init.rows)
        /\ \A i \in 1..Len(run_table.rows) :
              IF i <= Len(run_init.rows)
              THEN run_table.rows[i] = run_init.rows[i]
              ELSE run_table.rows[i] \in run_evals

-----------------------------------------------------------------------------
(* IMUModel.observe (imu.py lines 16-54) with the stride of line 25        *)
(*                                                                         *)
(* dt is given in milliseconds and the sensor rate in Hz, so that          *)
(* target_dt / dt = 1000 / (imu_sample_rate_hz * dt).                      *)

MaxKinSteps == 8

\* Python's round(a / b) for a >= 0, b > 0: ties go to the even integer
RoundHalfEven(a, b) ==
    LET q == a \div b
        r == a % b
    IN  IF 2 * r < b THEN q
        ELSE IF 2 * r > b THEN q + 1
        ELSE IF q % 2 = 0 THEN q ELSE q + 1

\* line 25: max(1, int(round(target_dt / config.dt)))
Stride(dt_ms, imu_sample_rate_hz) ==
    Max(1, RoundHalfEven(1000, imu_sample_rate_hz * dt_ms))

DtChoices == {1, 2, 5}
SampleRates == {50, 100, 200, 400, 1000, 2000}

\* a kinematic state of n steps whose rows tell their index
Kinematics(n) ==
    [pos |-> [i \in 1..n |-> <<i, 2 * i, 3 * i>>],
     vel |-> [i \in 1..n |-> <<0 - i, 0, i>>],
     acc |-> [i \in 1..n |-> <<i, i, i>>]]

\* IMUModel.observe: the MeasurementOutput with its meta
observe(t, kin, cfg, patient, rng) ==
    LET o == Observe(t, kin, cfg, patient, rng).out
    IN  [t |-> o.t, pos |-> o.pos, vel |-> o.vel, acc |-> o.acc,
         meta |-> [sample_rate_hz |-> cfg.imu_sample_rate_hz,
                   n_samples |-> Len(o.t)]]

NoObserve == [n_steps |-> 0, dt |-> 0, imu_sample_rate_hz |-> 0,
              include_noise |-> FALSE]

NoOutput == [t |-> <<>>, pos |-> <<>>, vel |-> <<>>, acc |-> <<>>,
             meta |-> [sample_rate_hz |-> 0, n_samples |-> 0]]

InitImu ==
    /\ imu_in = NoObserve
    /\ imu_out = NoOutput

\* one observe call on the kinematics of a rollout of n_steps steps; the
\* sensor keeps no state, so each behaviour makes one call
ObserveKinematics ==
    /\ imu_in = NoObserve
    /\ \E n \in 1..MaxKinSteps, dt_ms \in DtChoices, rate \in SampleRates,
          include_noise \in BOOLEAN, seed \in Seeds :
         LET t == [i \in 1..n |-> (i - 1) * dt_ms]
             cfg == [dt |-> dt_ms, imu_sample_rate_hz |-> rate,
                     stride |-> Stride(dt_ms, rate),
                     include_noise |-> include_noise]
         IN  /\ imu_in' = [n_steps |-> n, dt |-> dt_ms,
                           imu_sample_rate_hz |-> rate,
                           include_noise |-> include_noise]
             /\ imu_out' = observe(t, Kinematics(n), cfg, Patient(1),
                                   DefaultRng(seed))
    /\ UNCHANGED otherThanImu

NextImu == ObserveKinematics

-----------------------------------------------------------------------------
(* Properties of IMUModel.observe *)

\* C26: observe keeps exactly the samples at the indices 0, s, 2s, ... with
\* s = max(1, round(target_dt / dt)); t, pos, vel and acc have the same
\* non-zero number of rows, which is meta['n_samples'] and
\* ceil(n_steps / s), and pos, vel and acc have 3 columns.
C26_DownsampledByStride ==
    imu_in # NoObserve =>
        LET s == Max(1, RoundHalfEven(1000, imu_in.imu_sample_rate_hz * imu_in.dt))
            m == Len(imu_out.t)
            kin == Kinematics(imu_in.n_steps)
        IN  /\ m > 0
            /\ m = (imu_in.n_steps + s - 1) \div s
            /\ m = imu_out.meta.n_samples
            /\ Len(imu_out.pos) = m /\ Len(imu_out.vel) = m /\ Len(imu_out.acc) = m
            /\ \A k \in 1..m :
                  /\ imu_out.t[k] = (k - 1) * s * imu_in.dt
                  /\ Len(imu_out.pos[k]) = 3
                  /\ Len(imu_out.vel[k]) = 3
                  /\ Len(imu_out.acc[k]) = 3
                  /\ ~imu_in.include_noise =>
                        /\ imu_out.pos[k] = kin.pos[(k - 1) * s + 1]
                        /\ imu_out.vel[k] = kin.vel[(k - 1) * s + 1]
                        /\ imu_out.acc[k] = kin.acc[(k - 1) * s + 1]

\* a call that dropped samples and kept more than one, with a stride that
\* came from a tie of the rounding (target_dt / dt = 2.5)
C26_Witness ==
    /\ imu_in.n_steps = MaxKinSteps
    /\ imu_in.imu_sample_rate_hz = 400 /\ imu_in.dt = 1
    /\ imu_out.meta.n_samples = MaxKinSteps \div 2
    /\ imu_out.t[2] = 2

-----------------------------------------------------------------------------
(* The time grid of a rollout (types.py lines 44-50) and the time step     *)
(* each stage works with.  dt and duration_s are integers in one unit; a   *)
(* grid point is a rational.                                               *)

MaxDt == 8
MaxDuration == 24

\* RolloutConfig.n_steps
n_steps(cfg) == (cfg.duration_s \div cfg.dt) + 1

\* np.linspace(start, stop, num) for num >= 2
linspace(start, stop, num) ==
    [i \in 1..num |-> Rat(start * (num - 1) + (i - 1) * (stop - start), num - 1)]

\* RolloutConfig.t
ConfigT(cfg) == linspace(0, cfg.duration_s, n_steps(cfg))

\* float(np.mean(np.diff(t))) of a grid whose points share one denominator
MeanDiff(t) ==
    Rat(t[Len(t)].num - t[1].num, t[1].den * (Len(t) - 1))

\* the step each stage of Simulator.run uses: the encoder
\* (waveforms.py line 35) and the drive model (bgtcs_meanfield.py line 55)
\* take it from the grid, the transducer (simulator.py line 35) and the
\* sensor (imu.py line 25) from config.dt
StageSteps(cfg) ==
    LET t == ConfigT(cfg)
    IN  [encoder |-> MeanDiff(t), brain |-> MeanDiff(t),
         periphery |-> Rat(cfg.dt, 1), sensor |-> Rat(cfg.dt, 1)]

NoGrid == [dt |-> 0, duration_s |-> 0]

InitGrid ==
    /\ grid_cfg = NoGrid
    /\ grid_t = <<>>
    /\ grid_steps = <<>>

\* one rollout with a RolloutConfig of dt > 0 and duration_s >= dt
BuildGrid ==
    /\ grid_cfg = NoGrid
    /\ \E dt \in 1..MaxDt, duration_s \in 1..MaxDuration :
         /\ duration_s >= dt
         /\ LET cfg == [dt |-> dt, duration_s |-> duration_s]
            IN  /\ grid_cfg' = cfg
                /\ grid_t' = ConfigT(cfg)
                /\ grid_steps' = StageSteps(cfg)
    /\ UNCHANGED otherThanGrid

NextGrid == BuildGrid

-----------------------------------------------------------------------------
(* Properties of the time grid *)

\* C30: consecutive points of the time grid are exactly dt apart, and the
\* step the encoder and the drive model derive from the grid equals the dt
\* the transducer and the sensor take from the config.
C30_GridStepIsDt ==
    grid_cfg # NoGrid =>
        /\ \A i \in 1..(Len(grid_t) - 1) :
              RatEq(Rat(grid_t[i + 1].num - grid_t[i].num, grid_t[i].den),
                    Rat(grid_cfg.dt, 1))
        /\ RatEq(grid_steps.encoder, grid_steps.periphery)
        /\ RatEq(grid_steps.brain, grid_steps.sensor)

-----------------------------------------------------------------------------
(* Specifications *)

vars == <<bayesVars, lossVars, simVars, cacheVars, typesVars,
          boundsVars, cohortVars, waveVars, tableVars, eiVars, stabVars,
          runnerVars, imuVars, gridVars>>

Init ==
    /\ InitBayes /\ InitLoss /\ InitSim /\ InitCache
    /\ InitTypes /\ InitBounds /\ InitCohort /\ InitWave /\ InitTable /\ InitEi /\ InitStab /\ InitRunner /\ InitImu /\ InitGrid

SpecBayes == Init /\ [][NextBayes]_vars

SpecLoss == Init /\ [][NextLoss]_vars

SpecSim == Init /\ [][NextSim]_vars

SpecCache == Init /\ [][NextCache]_vars

SpecTypes == Init /\ [][NextTypes]_vars

SpecBounds == Init /\ [][NextBounds]_vars

SpecCohort == Init /\ [][NextCohort]_vars

SpecWave == Init /\ [][NextWave]_vars

SpecTable == Init /\ [][NextTable]_vars

SpecEi == Init /\ [][NextEi]_vars

SpecStab == Init /\ [][NextStab]_vars

SpecRunner == Init /\ [][NextRunner]_vars

\* the runner's loop keeps running while a pass is left to make
SpecRunnerLive == SpecRunner /\ WF_vars(NextRunner)

SpecImu == Init /\ [][NextImu]_vars

SpecGrid == Init /\ [][NextGrid]_vars

=============================================================================
